---- MODULE Spec2Model ----
(***************************************************************************)
(* Body-measurement handler (src/lambda/body_measurement/handler.py):      *)
(* the table of measurement records of the users and the Latest / Oldest   *)
(* summary records that the handler maintains on add, update and delete.   *)
(*                                                                         *)
(* A DynamoDB item (a Python dict) is a function from attribute names to   *)
(* values, so "k in item" is  k \in DOMAIN item.  A measurement time is a  *)
(* natural number whose order is the order of the ISO-8601 strings, and a  *)
(* sort key 'MEASUREMENT#<x>' is the number that stands for <x>; the two   *)
(* sentinel suffixes 'latest' and 'oldest' are numbers above every time,   *)
(* as letters sort above digits.  A metric value (a Decimal) is a whole    *)
(* number of tenths: 65.0 kg is 650.                                       *)
(* The wall-clock attributes created_at and updated_at, which no handler   *)
(* reads, and the message texts are left out.                              *)
(*                                                                         *)
(* A storage call that fails raises botocore's ClientError.  An invocation *)
(* is given the set of its storage calls that fail (faults); the calls are *)
(* named by what they serve, see StorageCalls.                             *)
(*                                                                         *)
(* Invocations run one at a time and to completion, except under RaceSpec, *)
(* where two run concurrently and each storage call is a step of its own;  *)
(* calls holds the invocations in flight.                                  *)
(*                                                                         *)
(* The activity handler (src/lambda/activity/handler.py) keeps, in a table *)
(* of its own (activities_table), one item per user and date holding the   *)
(* list of that day's activities.                                          *)
(***************************************************************************)
EXTENDS Integers, Sequences, FiniteSets, TLC

VARIABLES table, response, tool, ops, failed, calls, activities_table

vars == <<table, response, tool, ops, failed, calls, activities_table>>

\* ---------------------------------------------------------------- bounds
MaxTime == 3
MaxOps == 3

Times == 1..MaxTime

\* ------------------------------------------------------------- constants
Users == {"u1"}

\* ['weight', 'height', 'body_fat_percentage'], in the order the code walks it
MeasurementTypes == <<"weight", "height", "body_fat_percentage">>

Metrics == {MeasurementTypes[k] : k \in DOMAIN MeasurementTypes}

\* the x of 'MEASUREMENT#latest' and of 'MEASUREMENT#oldest'
LATEST_ID == 100
OLDEST_ID == 101

\* the storage calls of one invocation:
\*   read_record   table.get_item of the target record (update, delete)
\*   write_record  table.put_item / table.delete_item of the regular record
\*   list_records  the query of update_latest_oldest_records, through
\*                 get_all_user_measurements
\*   read_latest   the query made to maintain or to report Latest
\*   write_latest  table.put_item / table.delete_item of MEASUREMENT#latest
\*   read_oldest   the query made to maintain or to report Oldest
\*   write_oldest  table.put_item / table.delete_item of MEASUREMENT#oldest
\*   read_history  the range query of get_measurement_history
StorageCalls ==
    {"read_record", "write_record", "list_records",
     "read_latest", "write_latest", "read_oldest", "write_oldest", "read_history"}

NoFaults == {}

\* f'last_{measurement_type}_update' and f'first_{measurement_type}_record'
LastUpdateKey(measurement_type) ==
    CASE measurement_type = "weight" -> "last_weight_update"
      [] measurement_type = "height" -> "last_height_update"
      [] measurement_type = "body_fat_percentage" -> "last_body_fat_percentage_update"

FirstRecordKey(measurement_type) ==
    CASE measurement_type = "weight" -> "first_weight_record"
      [] measurement_type = "height" -> "first_height_record"
      [] measurement_type = "body_fat_percentage" -> "first_body_fat_percentage_record"

\* {**a, **b}, a.update(b): the entries of b win
DictUpdate(a, b) == b @@ a

EmptyDict == [k \in {} |-> 0]

\* the metric entries of a dict
MetricsOf(d) == [m \in (DOMAIN d) \cap Metrics |-> d[m]]

\* a value of a request, such as 'abc', that is no number
NotANumber == 1000000

\* Decimal(str(value)) raises decimal.InvalidOperation, which is no ValueError
Unreadable(d) == \E m \in DOMAIN d : d[m] = NotANumber

\* a decimal number of units, in tenths
Tenths(n) == n * 10

\* the value of a metric that the k-th invocation carries: 65.0, 66.0, ... kg,
\* 170.0, 171.0, ... cm and 15.0, 16.0, ... %, as in test_mcp_client.py.  The
\* handler neither compares nor computes with the values it stores, so every
\* invocation carries values of its own, and a value found in a record or in
\* a summary tells which invocation wrote it.
SampleValue(measurement_type, k) ==
    CASE measurement_type = "weight" -> Tenths(64 + k)
      [] measurement_type = "height" -> Tenths(169 + k)
      [] measurement_type = "body_fat_percentage" -> Tenths(14 + k)

\* every dict of metric values the k-th invocation can carry, the empty one
\* included
MeasurementData(k) == {[m \in S |-> SampleValue(m, k)] : S \in SUBSET Metrics}

\* ------------------------------------------------------------ the table
SameKey(i, user_id, measurementId) ==
    i["userId"] = user_id /\ i["measurementId"] = measurementId

put_item(tbl, item) ==
    {i \in tbl : ~SameKey(i, item["userId"], item["measurementId"])} \cup {item}

delete_item(tbl, user_id, measurementId) ==
    {i \in tbl : ~SameKey(i, user_id, measurementId)}

\* the set holding the item of that key, or the empty set ('Item' not in response)
get_item(tbl, user_id, measurementId) ==
    {i \in tbl : SameKey(i, user_id, measurementId)}

\* a query returns the items of the partition in ascending sort-key order
RECURSIVE BySortKey(_)
BySortKey(S) ==
    IF S = {} THEN <<>>
    ELSE LET i == CHOOSE x \in S : \A y \in S : x["measurementId"] <= y["measurementId"]
         IN  <<i>> \o BySortKey(S \ {i})

\* table.query(IndexName='RecordTypeIndex', userId = :pk AND record_type = :rt)
query_record_type(tbl, user_id, rt) ==
    BySortKey({i \in tbl : /\ i["userId"] = user_id
                           /\ "record_type" \in DOMAIN i
                           /\ i["record_type"] = rt})

\* get_all_user_measurements without the key condition userId = :pk
get_all_user_measurements_of_anyone(tbl, user_id, query_fails) ==
    IF query_fails THEN <<>> ELSE BySortKey(tbl)

\* query_fails: table.query raises, and the function returns []
get_all_user_measurements(tbl, user_id, query_fails) ==
    IF query_fails THEN <<>> ELSE BySortKey({i \in tbl : i["userId"] = user_id})

\* not endswith('#latest') and not endswith('#oldest')
IsRegularItem(r) == r["measurementId"] # LATEST_ID /\ r["measurementId"] # OLDEST_ID

regular_measurements(items) == SelectSeq(items, IsRegularItem)

\* list.sort(key=lambda x: x['measurement_time'], reverse=...): a stable sort
RECURSIVE InsertByTime(_, _, _)
InsertByTime(s, x, reverse) ==
    IF s = <<>> THEN <<x>>
    ELSE IF (IF reverse THEN x["measurement_time"] > Head(s)["measurement_time"]
                        ELSE x["measurement_time"] < Head(s)["measurement_time"])
         THEN <<x>> \o s
         ELSE <<Head(s)>> \o InsertByTime(Tail(s), x, reverse)

RECURSIVE sort_by_measurement_time(_, _)
sort_by_measurement_time(s, reverse) ==
    IF s = <<>> THEN <<>>
    ELSE InsertByTime(sort_by_measurement_time(SubSeq(s, 1, Len(s) - 1), reverse),
                      s[Len(s)], reverse)

\* records_with_type = [r for r in regular_measurements if measurement_type in r]
records_with_type(regular, measurement_type) ==
    SelectSeq(regular, LAMBDA r : measurement_type \in DOMAIN r)

\* the metric types some regular record carries
TypesCarried(regular) ==
    {m \in Metrics : records_with_type(regular, m) # <<>>}

\* ---------------------------------------------- maintenance after an add
\* handle_first_measurement stamping Oldest with the attribute names of Latest
handle_first_measurement_one_naming(tbl, user_id, measurement, measurement_time, faults) ==
    LET base_record_data == DictUpdate(measurement, "measurement_time" :> measurement_time)
        carried == (DOMAIN measurement) \cap Metrics
        stamps == [k \in {LastUpdateKey(m) : m \in carried} |-> measurement_time]
        latest_record ==
            DictUpdate(DictUpdate(("userId" :> user_id) @@ ("measurementId" :> LATEST_ID)
                                      @@ ("record_type" :> "latest"),
                                  base_record_data),
                       stamps)
        oldest_record ==
            DictUpdate(DictUpdate(("userId" :> user_id) @@ ("measurementId" :> OLDEST_ID)
                                      @@ ("record_type" :> "oldest"),
                                  base_record_data),
                       stamps)
    IN  IF "write_latest" \in faults THEN tbl
        ELSE IF "write_oldest" \in faults THEN put_item(tbl, latest_record)
        ELSE put_item(put_item(tbl, latest_record), oldest_record)

handle_first_measurement(tbl, user_id, measurement, measurement_time, faults) ==
    LET base_record_data == DictUpdate(measurement, "measurement_time" :> measurement_time)
        carried == (DOMAIN measurement) \cap Metrics
        latest_record ==
            DictUpdate(DictUpdate(("userId" :> user_id) @@ ("measurementId" :> LATEST_ID)
                                      @@ ("record_type" :> "latest"),
                                  base_record_data),
                       [k \in {LastUpdateKey(m) : m \in carried} |-> measurement_time])
        oldest_record ==
            DictUpdate(DictUpdate(("userId" :> user_id) @@ ("measurementId" :> OLDEST_ID)
                                      @@ ("record_type" :> "oldest"),
                                  base_record_data),
                       [k \in {FirstRecordKey(m) : m \in carried} |-> measurement_time])
    IN  IF "write_latest" \in faults THEN tbl
        ELSE IF "write_oldest" \in faults THEN put_item(tbl, latest_record)
        ELSE put_item(put_item(tbl, latest_record), oldest_record)

\* update_latest_record building the Latest record anew instead of copying
\* the current one (handler.py:392)
update_latest_record_replacing(tbl, user_id, new_measurement, measurement_time, faults) ==
    LET carried == (DOMAIN new_measurement) \cap Metrics
        stamps == [k \in {LastUpdateKey(m) : m \in carried} |-> measurement_time]
    IN  IF "read_latest" \in faults \/ "write_latest" \in faults THEN tbl
        ELSE
        put_item(tbl,
            DictUpdate(DictUpdate(("userId" :> user_id) @@ ("measurementId" :> LATEST_ID)
                                      @@ ("record_type" :> "latest"),
                                  new_measurement),
                       stamps))

\* update_latest_record returning without a put when no Latest record exists
update_latest_record_not_creating(tbl, user_id, new_measurement, measurement_time, faults) ==
    LET items == query_record_type(tbl, user_id, "latest")
        carried == (DOMAIN new_measurement) \cap Metrics
        stamps == [k \in {LastUpdateKey(m) : m \in carried} |-> measurement_time]
    IN  IF "read_latest" \in faults \/ "write_latest" \in faults THEN tbl
        ELSE IF items = <<>> THEN tbl
        ELSE put_item(tbl,
                 DictUpdate(DictUpdate(items[1], MetricsOf(new_measurement)), stamps))

\* update_latest_record taking a metric only from a record that is not older
\* than the one Latest has it from
update_latest_record_comparing(tbl, user_id, new_measurement, measurement_time, faults) ==
    LET items == query_record_type(tbl, user_id, "latest")
        carried == (DOMAIN new_measurement) \cap Metrics
        newer == {m \in carried :
                     \/ LastUpdateKey(m) \notin DOMAIN items[1]
                     \/ items[1][LastUpdateKey(m)] <= measurement_time}
    IN  IF "read_latest" \in faults \/ "write_latest" \in faults THEN tbl
        ELSE IF items = <<>>
        THEN put_item(tbl,
                 DictUpdate(DictUpdate(("userId" :> user_id) @@ ("measurementId" :> LATEST_ID)
                                           @@ ("record_type" :> "latest"),
                                       new_measurement),
                            [k \in {LastUpdateKey(m) : m \in carried} |-> measurement_time]))
        ELSE put_item(tbl,
                 DictUpdate(DictUpdate(items[1], [m \in newer |-> new_measurement[m]]),
                            [k \in {LastUpdateKey(m) : m \in newer} |-> measurement_time]))

update_latest_record(tbl, user_id, new_measurement, measurement_time, faults) ==
    LET items == query_record_type(tbl, user_id, "latest")
        carried == (DOMAIN new_measurement) \cap Metrics
        stamps == [k \in {LastUpdateKey(m) : m \in carried} |-> measurement_time]
    IN  IF "read_latest" \in faults \/ "write_latest" \in faults THEN tbl
        ELSE IF items = <<>>
        THEN put_item(tbl,
                 DictUpdate(DictUpdate(("userId" :> user_id) @@ ("measurementId" :> LATEST_ID)
                                           @@ ("record_type" :> "latest"),
                                       new_measurement),
                            stamps))
        ELSE put_item(tbl,
                 DictUpdate(DictUpdate(items[1], MetricsOf(new_measurement)), stamps))

\* update_oldest_record without the "not yet recorded" test of handler.py:468
update_oldest_record_overwriting(tbl, user_id, new_measurement, measurement_time, faults) ==
    LET items == query_record_type(tbl, user_id, "oldest")
        carried == (DOMAIN new_measurement) \cap Metrics
        stamps == [k \in {FirstRecordKey(m) : m \in carried} |-> measurement_time]
    IN  IF "read_oldest" \in faults \/ "write_oldest" \in faults THEN tbl
        ELSE IF items = <<>>
        THEN put_item(tbl,
                 DictUpdate(DictUpdate(("userId" :> user_id) @@ ("measurementId" :> OLDEST_ID)
                                           @@ ("record_type" :> "oldest"),
                                       new_measurement),
                            stamps))
        ELSE put_item(tbl,
                 DictUpdate(DictUpdate(items[1], MetricsOf(new_measurement)), stamps))

\* update_oldest_record taking a metric also from a record that is older than
\* the one Oldest has it from
update_oldest_record_earliest(tbl, user_id, new_measurement, measurement_time, faults) ==
    LET items == query_record_type(tbl, user_id, "oldest")
        carried == (DOMAIN new_measurement) \cap Metrics
    IN  IF "read_oldest" \in faults \/ "write_oldest" \in faults THEN tbl
        ELSE IF items = <<>>
        THEN put_item(tbl,
                 DictUpdate(DictUpdate(("userId" :> user_id) @@ ("measurementId" :> OLDEST_ID)
                                           @@ ("record_type" :> "oldest"),
                                       new_measurement),
                            [k \in {FirstRecordKey(m) : m \in carried} |-> measurement_time]))
        ELSE LET current_oldest == items[1]
                 fresh == {m \in carried :
                              \/ m \notin DOMAIN current_oldest
                              \/ measurement_time < current_oldest[FirstRecordKey(m)]}
             IN  put_item(tbl,
                     DictUpdate(DictUpdate(current_oldest,
                                           [m \in fresh |-> new_measurement[m]]),
                                [k \in {FirstRecordKey(m) : m \in fresh} |-> measurement_time]))

update_oldest_record(tbl, user_id, new_measurement, measurement_time, faults) ==
    LET items == query_record_type(tbl, user_id, "oldest")
        carried == (DOMAIN new_measurement) \cap Metrics
    IN  IF "read_oldest" \in faults \/ "write_oldest" \in faults THEN tbl
        ELSE IF items = <<>>
        THEN put_item(tbl,
                 DictUpdate(DictUpdate(("userId" :> user_id) @@ ("measurementId" :> OLDEST_ID)
                                           @@ ("record_type" :> "oldest"),
                                       new_measurement),
                            [k \in {FirstRecordKey(m) : m \in carried} |-> measurement_time]))
        ELSE LET current_oldest == items[1]
                 fresh == {m \in carried : m \notin DOMAIN current_oldest}
             IN  put_item(tbl,
                     DictUpdate(DictUpdate(current_oldest,
                                           [m \in fresh |-> new_measurement[m]]),
                                [k \in {FirstRecordKey(m) : m \in fresh} |-> measurement_time]))

update_latest_oldest_records(tbl, user_id, new_measurement, measurement_time, faults) ==
    LET regular == regular_measurements(
                       get_all_user_measurements(tbl, user_id, "list_records" \in faults))
        is_first_measurement == Len(regular) <= 1
    IN  IF is_first_measurement
        THEN handle_first_measurement(tbl, user_id, new_measurement, measurement_time, faults)
        ELSE update_oldest_record(
                 update_latest_record(tbl, user_id, new_measurement, measurement_time, faults),
                 user_id, new_measurement, measurement_time, faults)

\* ------------------------------------------- maintenance after an update
\* recalculate_latest_record_after_update sorting without reverse=True
recalculate_latest_record_after_update_ascending(tbl, user_id, faults) ==
    LET regular == regular_measurements(
                       get_all_user_measurements(tbl, user_id, "read_latest" \in faults))
        newest(m) == sort_by_measurement_time(records_with_type(regular, m), FALSE)[1]
        types == TypesCarried(regular)
        latest_values == [m \in types |-> newest(m)[m]]
        last_update_times ==
            [k \in {LastUpdateKey(m) : m \in types} |->
                newest(CHOOSE m \in types : LastUpdateKey(m) = k)["measurement_time"]]
    IN  IF "write_latest" \in faults THEN tbl
        ELSE IF regular = <<>>
        THEN delete_item(tbl, user_id, LATEST_ID)
        ELSE put_item(tbl,
                 DictUpdate(DictUpdate(("userId" :> user_id) @@ ("measurementId" :> LATEST_ID)
                                           @@ ("record_type" :> "latest"),
                                       latest_values),
                            last_update_times))

recalculate_latest_record_after_update(tbl, user_id, faults) ==
    LET regular == regular_measurements(
                       get_all_user_measurements(tbl, user_id, "read_latest" \in faults))
        newest(m) == sort_by_measurement_time(records_with_type(regular, m), TRUE)[1]
        types == TypesCarried(regular)
        latest_values == [m \in types |-> newest(m)[m]]
        last_update_times ==
            [k \in {LastUpdateKey(m) : m \in types} |->
                newest(CHOOSE m \in types : LastUpdateKey(m) = k)["measurement_time"]]
    IN  IF "write_latest" \in faults THEN tbl
        ELSE IF regular = <<>>
        THEN delete_item(tbl, user_id, LATEST_ID)
        ELSE IF latest_values # EmptyDict
        THEN put_item(tbl,
                 DictUpdate(DictUpdate(("userId" :> user_id) @@ ("measurementId" :> LATEST_ID)
                                           @@ ("record_type" :> "latest"),
                                       latest_values),
                            last_update_times))
        ELSE tbl

\* ------------------------------------------- maintenance after a delete
\* recalculate_latest_record_after_deletion merging the recomputed values into
\* the current Latest record instead of replacing it
recalculate_latest_record_after_deletion_merging(tbl, user_id, faults) ==
    LET regular == regular_measurements(
                       get_all_user_measurements(tbl, user_id, "read_latest" \in faults))
        current == query_record_type(tbl, user_id, "latest")
        newest(m) == sort_by_measurement_time(records_with_type(regular, m), TRUE)[1]
        types == TypesCarried(regular)
        latest_values == [m \in types |-> newest(m)[m]]
        last_update_times ==
            [k \in {LastUpdateKey(m) : m \in types} |->
                newest(CHOOSE m \in types : LastUpdateKey(m) = k)["measurement_time"]]
        base == IF current = <<>>
                THEN ("userId" :> user_id) @@ ("measurementId" :> LATEST_ID)
                         @@ ("record_type" :> "latest")
                ELSE current[1]
    IN  IF "write_latest" \in faults THEN tbl
        ELSE IF regular = <<>>
        THEN delete_item(tbl, user_id, LATEST_ID)
        ELSE put_item(tbl, DictUpdate(DictUpdate(base, latest_values), last_update_times))

recalculate_latest_record_after_deletion(tbl, user_id, faults) ==
    LET regular == regular_measurements(
                       get_all_user_measurements(tbl, user_id, "read_latest" \in faults))
        newest(m) == sort_by_measurement_time(records_with_type(regular, m), TRUE)[1]
        types == TypesCarried(regular)
        latest_values == [m \in types |-> newest(m)[m]]
        last_update_times ==
            [k \in {LastUpdateKey(m) : m \in types} |->
                newest(CHOOSE m \in types : LastUpdateKey(m) = k)["measurement_time"]]
    IN  IF "write_latest" \in faults THEN tbl
        ELSE IF regular = <<>>
        THEN delete_item(tbl, user_id, LATEST_ID)
        ELSE IF latest_values # EmptyDict
        THEN put_item(tbl,
                 DictUpdate(DictUpdate(("userId" :> user_id) @@ ("measurementId" :> LATEST_ID)
                                           @@ ("record_type" :> "latest"),
                                       latest_values),
                            last_update_times))
        ELSE tbl

\* recalculate_oldest_record_after_deletion leaving Oldest alone when no
\* regular record remains
recalculate_oldest_record_after_deletion_keeping(tbl, user_id, faults) ==
    LET regular == regular_measurements(
                       get_all_user_measurements(tbl, user_id, "read_oldest" \in faults))
        eldest(m) == sort_by_measurement_time(records_with_type(regular, m), FALSE)[1]
        types == TypesCarried(regular)
        oldest_values == [m \in types |-> eldest(m)[m]]
        first_record_times ==
            [k \in {FirstRecordKey(m) : m \in types} |->
                eldest(CHOOSE m \in types : FirstRecordKey(m) = k)["measurement_time"]]
    IN  IF "write_oldest" \in faults THEN tbl
        ELSE IF regular = <<>>
        THEN tbl
        ELSE put_item(tbl,
                 DictUpdate(DictUpdate(("userId" :> user_id) @@ ("measurementId" :> OLDEST_ID)
                                           @@ ("record_type" :> "oldest"),
                                       oldest_values),
                            first_record_times))

\* recalculate_oldest_record_after_deletion deleting Oldest whatever remains
recalculate_oldest_record_after_deletion_dropping(tbl, user_id, faults) ==
    IF "write_oldest" \in faults THEN tbl ELSE delete_item(tbl, user_id, OLDEST_ID)

recalculate_oldest_record_after_deletion(tbl, user_id, faults) ==
    LET regular == regular_measurements(
                       get_all_user_measurements(tbl, user_id, "read_oldest" \in faults))
        eldest(m) == sort_by_measurement_time(records_with_type(regular, m), FALSE)[1]
        types == TypesCarried(regular)
        oldest_values == [m \in types |-> eldest(m)[m]]
        first_record_times ==
            [k \in {FirstRecordKey(m) : m \in types} |->
                eldest(CHOOSE m \in types : FirstRecordKey(m) = k)["measurement_time"]]
    IN  IF "write_oldest" \in faults THEN tbl
        ELSE IF regular = <<>>
        THEN delete_item(tbl, user_id, OLDEST_ID)
        ELSE IF oldest_values # EmptyDict
        THEN put_item(tbl,
                 DictUpdate(DictUpdate(("userId" :> user_id) @@ ("measurementId" :> OLDEST_ID)
                                           @@ ("record_type" :> "oldest"),
                                       oldest_values),
                            first_record_times))
        ELSE tbl

\* ------------------------------------------------------------ validation
\* TRUE when validate_measurement_values raises ValueError
validate_measurement_values(measurements) ==
    \/ /\ "weight" \in DOMAIN measurements
       /\ (measurements["weight"] <= 0 \/ measurements["weight"] > Tenths(1000))
    \/ /\ "height" \in DOMAIN measurements
       /\ (measurements["height"] < Tenths(50) \/ measurements["height"] > Tenths(300))
    \/ /\ "body_fat_percentage" \in DOMAIN measurements
       /\ (measurements["body_fat_percentage"] < 0
             \/ measurements["body_fat_percentage"] > Tenths(100))

\* ------------------------------------------------------------- handlers
\* what a handler hands back to lambda_handler: the table it leaves, the
\* exception it raised ("" for none) and the dict it returned
Return(tbl, result) == [table |-> tbl, raised |-> "", result |-> result]

Raise(tbl, exception) == [table |-> tbl, raised |-> exception, result |-> EmptyDict]

\* the regular record of an add; measurement_id = measurement_time
MeasurementRecord(user_id, measurement_data, measurement_time) ==
    DictUpdate(DictUpdate(("userId" :> user_id) @@ ("measurementId" :> measurement_time),
                          measurement_data),
               "measurement_time" :> measurement_time)

\* add_body_measurement letting a failure of the maintenance of Latest and
\* Oldest reach the caller
add_body_measurement_escalating(tbl, parameters, faults) ==
    LET user_id == parameters["userId"]
        measurement_data == MetricsOf(parameters)
        measurement_time == parameters["measurement_time"]
        measurement_record == MeasurementRecord(user_id, measurement_data, measurement_time)
        maintained == update_latest_oldest_records(put_item(tbl, measurement_record),
                                                   user_id, measurement_data, measurement_time,
                                                   faults)
    IN  IF Unreadable(measurement_data) THEN Raise(tbl, "InvalidOperation")
        ELSE IF measurement_data = EmptyDict THEN Raise(tbl, "ValueError")
        ELSE IF validate_measurement_values(measurement_data) THEN Raise(tbl, "ValueError")
        ELSE IF "write_record" \in faults THEN Raise(tbl, "ClientError")
        ELSE IF faults # {} THEN Raise(maintained, "ClientError")
        ELSE Return(maintained,
                    ("success" :> TRUE) @@ ("measurementId" :> measurement_time))

add_body_measurement(tbl, parameters, faults) ==
    LET user_id == parameters["userId"]
        measurement_data == MetricsOf(parameters)
        measurement_time == parameters["measurement_time"]
        measurement_record == MeasurementRecord(user_id, measurement_data, measurement_time)
    IN  IF Unreadable(measurement_data) THEN Raise(tbl, "InvalidOperation")
        ELSE IF measurement_data = EmptyDict THEN Raise(tbl, "ValueError")
        ELSE IF validate_measurement_values(measurement_data) THEN Raise(tbl, "ValueError")
        ELSE IF "write_record" \in faults THEN Raise(tbl, "ClientError")
        ELSE Return(update_latest_oldest_records(put_item(tbl, measurement_record),
                                                 user_id, measurement_data, measurement_time,
                                                 faults),
                    ("success" :> TRUE) @@ ("measurementId" :> measurement_time))

\* update_body_measurement looking the record up before it looks at the
\* request's metrics
update_body_measurement_reading_first(tbl, parameters, faults) ==
    LET user_id == parameters["userId"]
        measurement_id == parameters["measurement_id"]
        update_data == MetricsOf(parameters)
        found == get_item(tbl, user_id, measurement_id)
        existing_record == CHOOSE i \in found : TRUE
        updated_record == DictUpdate(existing_record, update_data)
    IN  IF "read_record" \in faults THEN Raise(tbl, "ClientError")
        ELSE IF found = {} THEN Raise(tbl, "ValueError")
        ELSE IF Unreadable(update_data) THEN Raise(tbl, "InvalidOperation")
        ELSE IF update_data = EmptyDict THEN Raise(tbl, "ValueError")
        ELSE IF validate_measurement_values(update_data) THEN Raise(tbl, "ValueError")
        ELSE IF "write_record" \in faults THEN Raise(tbl, "ClientError")
        ELSE Return(recalculate_latest_record_after_update(put_item(tbl, updated_record),
                                                           user_id, faults),
                    ("success" :> TRUE) @@ ("measurementId" :> measurement_id)
                        @@ ("updatedValues" :> update_data))

\* update_body_measurement recomputing Oldest as well as Latest
update_body_measurement_recalculating_oldest(tbl, parameters, faults) ==
    LET user_id == parameters["userId"]
        measurement_id == parameters["measurement_id"]
        update_data == MetricsOf(parameters)
        found == get_item(tbl, user_id, measurement_id)
        existing_record == CHOOSE i \in found : TRUE
        updated_record == DictUpdate(existing_record, update_data)
    IN  IF Unreadable(update_data) THEN Raise(tbl, "InvalidOperation")
        ELSE IF update_data = EmptyDict THEN Raise(tbl, "ValueError")
        ELSE IF validate_measurement_values(update_data) THEN Raise(tbl, "ValueError")
        ELSE IF "read_record" \in faults THEN Raise(tbl, "ClientError")
        ELSE IF found = {} THEN Raise(tbl, "ValueError")
        ELSE IF "write_record" \in faults THEN Raise(tbl, "ClientError")
        ELSE Return(recalculate_oldest_record_after_deletion(
                        recalculate_latest_record_after_update(put_item(tbl, updated_record),
                                                               user_id, faults),
                        user_id, faults),
                    ("success" :> TRUE) @@ ("measurementId" :> measurement_id)
                        @@ ("updatedValues" :> update_data))

\* update_body_measurement writing the named metrics in place of the record's
update_body_measurement_replacing(tbl, parameters, faults) ==
    LET user_id == parameters["userId"]
        measurement_id == parameters["measurement_id"]
        update_data == MetricsOf(parameters)
        found == get_item(tbl, user_id, measurement_id)
        existing_record == CHOOSE i \in found : TRUE
        updated_record ==
            DictUpdate([k \in (DOMAIN existing_record) \ Metrics |-> existing_record[k]],
                       update_data)
    IN  IF Unreadable(update_data) THEN Raise(tbl, "InvalidOperation")
        ELSE IF update_data = EmptyDict THEN Raise(tbl, "ValueError")
        ELSE IF validate_measurement_values(update_data) THEN Raise(tbl, "ValueError")
        ELSE IF "read_record" \in faults THEN Raise(tbl, "ClientError")
        ELSE IF found = {} THEN Raise(tbl, "ValueError")
        ELSE IF existing_record["userId"] # user_id THEN Raise(tbl, "ValueError")
        ELSE IF "write_record" \in faults THEN Raise(tbl, "ClientError")
        ELSE Return(recalculate_latest_record_after_update(put_item(tbl, updated_record),
                                                           user_id, faults),
                    ("success" :> TRUE) @@ ("measurementId" :> measurement_id)
                        @@ ("updatedValues" :> update_data))

update_body_measurement(tbl, parameters, faults) ==
    LET user_id == parameters["userId"]
        measurement_id == parameters["measurement_id"]
        update_data == MetricsOf(parameters)
        found == get_item(tbl, user_id, measurement_id)
        existing_record == CHOOSE i \in found : TRUE
        updated_record == DictUpdate(existing_record, update_data)
    IN  IF Unreadable(update_data) THEN Raise(tbl, "InvalidOperation")
        ELSE IF update_data = EmptyDict THEN Raise(tbl, "ValueError")
        ELSE IF validate_measurement_values(update_data) THEN Raise(tbl, "ValueError")
        ELSE IF "read_record" \in faults THEN Raise(tbl, "ClientError")
        ELSE IF found = {} THEN Raise(tbl, "ValueError")
        ELSE IF existing_record["userId"] # user_id THEN Raise(tbl, "ValueError")
        ELSE IF "write_record" \in faults THEN Raise(tbl, "ClientError")
        ELSE Return(recalculate_latest_record_after_update(put_item(tbl, updated_record),
                                                           user_id, faults),
                    ("success" :> TRUE) @@ ("measurementId" :> measurement_id)
                        @@ ("updatedValues" :> update_data))

\* delete_body_measurement returning success for a record that is not there
delete_body_measurement_idempotent(tbl, parameters, faults) ==
    LET user_id == parameters["userId"]
        measurement_id == parameters["measurement_id"]
    IN  IF "read_record" \in faults THEN Raise(tbl, "ClientError")
        ELSE IF "write_record" \in faults THEN Raise(tbl, "ClientError")
        ELSE Return(recalculate_oldest_record_after_deletion(
                        recalculate_latest_record_after_deletion(
                            delete_item(tbl, user_id, measurement_id), user_id, faults),
                        user_id, faults),
                    ("success" :> TRUE) @@ ("deletedMeasurementId" :> measurement_id))

\* delete_body_measurement going on after table.delete_item has failed
delete_body_measurement_swallowing(tbl, parameters, faults) ==
    LET user_id == parameters["userId"]
        measurement_id == parameters["measurement_id"]
        found == get_item(tbl, user_id, measurement_id)
        target_record == CHOOSE i \in found : TRUE
        deleted == IF "write_record" \in faults THEN tbl
                   ELSE delete_item(tbl, user_id, measurement_id)
    IN  IF "read_record" \in faults THEN Raise(tbl, "ClientError")
        ELSE IF found = {} THEN Raise(tbl, "ValueError")
        ELSE IF target_record["userId"] # user_id THEN Raise(tbl, "ValueError")
        ELSE Return(recalculate_oldest_record_after_deletion(
                        recalculate_latest_record_after_deletion(deleted, user_id, faults),
                        user_id, faults),
                    ("success" :> TRUE) @@ ("deletedMeasurementId" :> measurement_id))

delete_body_measurement(tbl, parameters, faults) ==
    LET user_id == parameters["userId"]
        measurement_id == parameters["measurement_id"]
        found == get_item(tbl, user_id, measurement_id)
        target_record == CHOOSE i \in found : TRUE
    IN  IF "read_record" \in faults THEN Raise(tbl, "ClientError")
        ELSE IF found = {} THEN Raise(tbl, "ValueError")
        ELSE IF target_record["userId"] # user_id THEN Raise(tbl, "ValueError")
        ELSE IF "write_record" \in faults THEN Raise(tbl, "ClientError")
        ELSE Return(recalculate_oldest_record_after_deletion(
                        recalculate_latest_record_after_deletion(
                            delete_item(tbl, user_id, measurement_id), user_id, faults),
                        user_id, faults),
                    ("success" :> TRUE) @@ ("deletedMeasurementId" :> measurement_id))

\* float(value) of a Decimal is the same number of tenths
get_latest_measurements(tbl, parameters, faults) ==
    LET items == query_record_type(tbl, parameters["userId"], "latest")
        latest_record == items[1]
        kept == {k \in DOMAIN latest_record :
                    k \in Metrics \/ k \in {LastUpdateKey(m) : m \in Metrics}}
    IN  IF "read_latest" \in faults THEN Raise(tbl, "ClientError")
        ELSE IF items = <<>>
        THEN Return(tbl, ("success" :> TRUE) @@ ("measurements" :> EmptyDict))
        ELSE Return(tbl, ("success" :> TRUE)
                             @@ ("measurements" :> [k \in kept |-> latest_record[k]]))

get_oldest_measurements(tbl, parameters, faults) ==
    LET items == query_record_type(tbl, parameters["userId"], "oldest")
        oldest_record == items[1]
        kept == {k \in DOMAIN oldest_record :
                    k \in Metrics \/ k \in {FirstRecordKey(m) : m \in Metrics}}
    IN  IF "read_oldest" \in faults THEN Raise(tbl, "ClientError")
        ELSE IF items = <<>>
        THEN Return(tbl, ("success" :> TRUE) @@ ("measurements" :> EmptyDict))
        ELSE Return(tbl, ("success" :> TRUE)
                             @@ ("measurements" :> [k \in kept |-> oldest_record[k]]))

\* a sort key as the sequence of its parts after 'MEASUREMENT#': <<x>> for
\* 'MEASUREMENT#{x}' and <<x, Z>> for 'MEASUREMENT#{x}Z'
Z == 1

\* a <= b for two strings: part by part, a prefix before what it begins
RECURSIVE StringLeq(_, _)
StringLeq(a, b) ==
    IF a = <<>> THEN TRUE
    ELSE IF b = <<>> THEN FALSE
    ELSE IF Head(a) # Head(b) THEN Head(a) < Head(b)
    ELSE StringLeq(Tail(a), Tail(b))

\* measurementId BETWEEN :start_sk AND :end_sk
Between(measurementId, start_sk, end_sk) ==
    StringLeq(start_sk, <<measurementId>>) /\ StringLeq(<<measurementId>>, end_sk)

RECURSIVE Reversed(_)
Reversed(s) == IF s = <<>> THEN <<>> ELSE Reversed(Tail(s)) \o <<Head(s)>>

\* the first n items of s, or all of them
FirstItems(s, n) == SubSeq(s, 1, IF n < Len(s) THEN n ELSE Len(s))

\* table.query(userId = :pk AND measurementId BETWEEN ..., Limit=limit,
\* ScanIndexForward=False): the Limit greatest keys of the range, greatest first
query_range(tbl, user_id, start_sk, end_sk, limit) ==
    FirstItems(Reversed(BySortKey({i \in tbl :
                   /\ i["userId"] = user_id
                   /\ Between(i["measurementId"], start_sk, end_sk)})),
               limit)

\* the metrics, measurement_time and measurement_id of an item
clean_measurement(measurement) ==
    [k \in (DOMAIN measurement) \cap (Metrics \cup {"measurement_time"}) |-> measurement[k]]
        @@ ("measurement_id" :> measurement["measurementId"])

CleanAll(measurements) ==
    [k \in DOMAIN measurements |-> clean_measurement(measurements[k])]

DEFAULT_LIMIT == 50

get_measurement_history(tbl, parameters, faults) ==
    LET limit == IF "limit" \in DOMAIN parameters THEN parameters["limit"] ELSE DEFAULT_LIMIT
        items == query_range(tbl, parameters["userId"], <<parameters["start_date"]>>,
                             <<parameters["end_date"], Z>>, limit)
        result == CleanAll(regular_measurements(items))
    IN  IF "start_date" \notin DOMAIN parameters \/ "end_date" \notin DOMAIN parameters
        THEN Raise(tbl, "ValueError")
        ELSE IF "read_history" \in faults THEN Raise(tbl, "ClientError")
        ELSE Return(tbl, ("success" :> TRUE) @@ ("measurements" :> result)
                             @@ ("count" :> Len(result))
                             @@ ("period" :> [start_date |-> parameters["start_date"],
                                              end_date |-> parameters["end_date"]]))

\* lambda_handler without the branch for the exceptions of other kinds
lambda_handler_unclassified(tbl, event, faults) ==
    LET tool_name == event["tool_name"]
        out == CASE tool_name = "AddBodyMeasurement" ->
                        add_body_measurement(tbl, event, faults)
                 [] tool_name = "UpdateBodyMeasurement" ->
                        update_body_measurement(tbl, event, faults)
                 [] tool_name = "DeleteBodyMeasurement" ->
                        delete_body_measurement(tbl, event, faults)
                 [] tool_name = "GetLatestMeasurements" ->
                        get_latest_measurements(tbl, event, faults)
                 [] tool_name = "GetOldestMeasurements" ->
                        get_oldest_measurements(tbl, event, faults)
                 [] tool_name = "GetMeasurementHistory" ->
                        get_measurement_history(tbl, event, faults)
                 [] OTHER -> Raise(tbl, "ValueError")
    IN  IF "userId" \notin DOMAIN event
        THEN [table |-> tbl,
              response |-> ("success" :> FALSE) @@ ("errorType" :> "ValidationError")]
        ELSE IF out.raised = "ValueError"
        THEN [table |-> out.table,
              response |-> ("success" :> FALSE) @@ ("errorType" :> "ValidationError")]
        ELSE IF out.raised = "ClientError"
        THEN [table |-> out.table,
              response |-> ("success" :> FALSE) @@ ("errorType" :> "DatabaseError")]
        ELSE IF out.raised # ""
        THEN [table |-> out.table, response |-> ("success" :> FALSE)]
        ELSE [table |-> out.table, response |-> out.result]

lambda_handler(tbl, event, faults) ==
    LET tool_name == event["tool_name"]
        out == CASE tool_name = "AddBodyMeasurement" ->
                        add_body_measurement(tbl, event, faults)
                 [] tool_name = "UpdateBodyMeasurement" ->
                        update_body_measurement(tbl, event, faults)
                 [] tool_name = "DeleteBodyMeasurement" ->
                        delete_body_measurement(tbl, event, faults)
                 [] tool_name = "GetLatestMeasurements" ->
                        get_latest_measurements(tbl, event, faults)
                 [] tool_name = "GetOldestMeasurements" ->
                        get_oldest_measurements(tbl, event, faults)
                 [] tool_name = "GetMeasurementHistory" ->
                        get_measurement_history(tbl, event, faults)
                 [] OTHER -> Raise(tbl, "ValueError")
    IN  IF "userId" \notin DOMAIN event
        THEN [table |-> tbl,
              response |-> ("success" :> FALSE) @@ ("errorType" :> "ValidationError")]
        ELSE IF out.raised = "ValueError"
        THEN [table |-> out.table,
              response |-> ("success" :> FALSE) @@ ("errorType" :> "ValidationError")]
        ELSE IF out.raised = "ClientError"
        THEN [table |-> out.table,
              response |-> ("success" :> FALSE) @@ ("errorType" :> "DatabaseError")]
        ELSE IF out.raised # ""
        THEN [table |-> out.table,
              response |-> ("success" :> FALSE) @@ ("errorType" :> "InternalError")]
        ELSE [table |-> out.table, response |-> out.result]

\* ---------------------------------------------------------- the machine
\* one invocation of the Lambda function, run to completion, in which the
\* storage calls of faults fail; ops counts the invocations made so far
Invoke(event, faults) ==
    LET done == lambda_handler(table, event, faults)
    IN  /\ table' = done.table
        /\ response' = done.response
        /\ tool' = event["tool_name"]
        /\ ops' = ops + 1
        /\ failed' = faults
        /\ UNCHANGED <<calls, activities_table>>

Event(tool_name, user_id) == ("tool_name" :> tool_name) @@ ("userId" :> user_id)

Init ==
    /\ table = {}
    /\ response = EmptyDict
    /\ tool = ""
    /\ ops = 0
    /\ failed = NoFaults
    /\ calls = <<>>
    /\ activities_table = {}

AddBodyMeasurement ==
    /\ ops < MaxOps
    /\ \E u \in Users, data \in MeasurementData(ops + 1), t \in Times :
           Invoke(Event("AddBodyMeasurement", u) @@ data @@ ("measurement_time" :> t), NoFaults)

UpdateBodyMeasurement ==
    /\ ops < MaxOps
    /\ \E u \in Users, data \in MeasurementData(ops + 1), id \in Times :
           Invoke(Event("UpdateBodyMeasurement", u) @@ data @@ ("measurement_id" :> id), NoFaults)

DeleteBodyMeasurement ==
    /\ ops < MaxOps
    /\ \E u \in Users, id \in Times :
           Invoke(Event("DeleteBodyMeasurement", u) @@ ("measurement_id" :> id), NoFaults)

GetLatestMeasurements ==
    /\ ops < MaxOps
    /\ \E u \in Users : Invoke(Event("GetLatestMeasurements", u), NoFaults)

GetOldestMeasurements ==
    /\ ops < MaxOps
    /\ \E u \in Users : Invoke(Event("GetOldestMeasurements", u), NoFaults)

\* any MaxOps invocations, one at a time, in any order
Next ==
    \/ AddBodyMeasurement
    \/ UpdateBodyMeasurement
    \/ DeleteBodyMeasurement
    \/ GetLatestMeasurements
    \/ GetOldestMeasurements

Spec == Init /\ [][Next]_vars

\* a delete that may also come after the MaxOps-th invocation
DeleteAtLast ==
    /\ ops <= MaxOps
    /\ \E u \in Users, id \in Times :
           Invoke(Event("DeleteBodyMeasurement", u) @@ ("measurement_id" :> id), NoFaults)

\* an update that may also come after the MaxOps-th invocation
UpdateAtLast ==
    /\ ops <= MaxOps
    /\ \E u \in Users, data \in MeasurementData(ops + 1), id \in Times :
           Invoke(Event("UpdateBodyMeasurement", u) @@ data @@ ("measurement_id" :> id), NoFaults)

\* adds, updates and deletes in any order, then one more update or delete
RecomputeNext ==
    \/ AddBodyMeasurement
    \/ UpdateAtLast
    \/ DeleteAtLast

RecomputeSpec == Init /\ [][RecomputeNext]_vars

\* an add whose measurement time is above that of every regular record, while
\* only adds have been made
AddInOrder ==
    /\ ops < MaxOps
    /\ tool \in {"", "AddBodyMeasurement"}
    /\ \E u \in Users, data \in MeasurementData(ops + 1), t \in Times :
           /\ \A r \in table :
                  r["userId"] = u /\ IsRegularItem(r) => r["measurement_time"] < t
           /\ Invoke(Event("AddBodyMeasurement", u) @@ data @@ ("measurement_time" :> t), NoFaults)

\* the delete of the earliest regular record, after the adds
DeleteEarliest ==
    /\ ops <= MaxOps
    /\ tool = "AddBodyMeasurement"
    /\ \E u \in Users, id \in Times :
           /\ \E r \in table : r["userId"] = u /\ r["measurementId"] = id
           /\ \A r \in table :
                  r["userId"] = u /\ IsRegularItem(r) => id <= r["measurement_time"]
           /\ Invoke(Event("DeleteBodyMeasurement", u) @@ ("measurement_id" :> id), NoFaults)

InOrderNext ==
    \/ AddInOrder
    \/ DeleteEarliest

InOrderSpec == Init /\ [][InOrderNext]_vars

\* the storage calls a well-formed request of the tool makes after its
\* primary write, and the fault sets that differ in what the invocation meets:
\* a failed primary call ends the invocation, so it comes alone
SecondaryCalls(tool_name) ==
    CASE tool_name = "AddBodyMeasurement" ->
             {"list_records", "read_latest", "write_latest", "read_oldest", "write_oldest"}
      [] tool_name = "UpdateBodyMeasurement" -> {"read_latest", "write_latest"}
      [] tool_name = "DeleteBodyMeasurement" ->
             {"read_latest", "write_latest", "read_oldest", "write_oldest"}

PrimaryCalls(tool_name) ==
    IF tool_name = "AddBodyMeasurement" THEN {"write_record"}
    ELSE {"read_record", "write_record"}

FaultSets(tool_name) ==
    {{c} : c \in PrimaryCalls(tool_name)} \cup SUBSET SecondaryCalls(tool_name)

\* only failure-free adds that succeeded have been made
OnlyAdds ==
    /\ tool \in {"", "AddBodyMeasurement"}
    /\ failed = NoFaults
    /\ tool = "" \/ ("success" \in DOMAIN response /\ response["success"])

\* the ids of the regular records of the user
RecordIds(user_id) ==
    {i["measurementId"] : i \in {r \in table : r["userId"] = user_id /\ IsRegularItem(r)}}

\* a well-formed add, update or delete, after failure-free adds, in which any
\* of its storage calls may fail
AddWithFaults ==
    /\ ops < MaxOps
    /\ OnlyAdds
    /\ \E u \in Users, data \in MeasurementData(ops + 1) \ {EmptyDict}, t \in Times,
          faults \in FaultSets("AddBodyMeasurement") :
           Invoke(Event("AddBodyMeasurement", u) @@ data @@ ("measurement_time" :> t), faults)

UpdateWithFaults ==
    /\ ops < MaxOps
    /\ OnlyAdds
    /\ \E u \in Users, data \in MeasurementData(ops + 1) \ {EmptyDict},
          faults \in FaultSets("UpdateBodyMeasurement") :
           \E id \in RecordIds(u) :
               Invoke(Event("UpdateBodyMeasurement", u) @@ data @@ ("measurement_id" :> id),
                      faults)

DeleteWithFaults ==
    /\ ops < MaxOps
    /\ OnlyAdds
    /\ \E u \in Users, faults \in FaultSets("DeleteBodyMeasurement") :
           \E id \in RecordIds(u) :
               Invoke(Event("DeleteBodyMeasurement", u) @@ ("measurement_id" :> id), faults)

FaultNext ==
    \/ AddWithFaults
    \/ UpdateWithFaults
    \/ DeleteWithFaults

FaultSpec == Init /\ [][FaultNext]_vars

\* an update or a delete of an existing record that runs alone and without
\* failure, right after the adds
UpdateAlone ==
    /\ ops < MaxOps
    /\ tool = "AddBodyMeasurement"
    /\ \E u \in Users, data \in MeasurementData(ops + 1) \ {EmptyDict} :
           \E id \in RecordIds(u) :
               Invoke(Event("UpdateBodyMeasurement", u) @@ data @@ ("measurement_id" :> id),
                      NoFaults)

DeleteAlone ==
    /\ ops < MaxOps
    /\ tool = "AddBodyMeasurement"
    /\ \E u \in Users :
           \E id \in RecordIds(u) :
               Invoke(Event("DeleteBodyMeasurement", u) @@ ("measurement_id" :> id), NoFaults)

\* adds, the last of which may meet failing storage calls, then one update or
\* delete
HealNext ==
    \/ AddWithFaults
    \/ UpdateAlone
    \/ DeleteAlone

HealSpec == Init /\ [][HealNext]_vars

\* ------------------------------------------- requests naming a summary
\* measurement_id = 'latest' and measurement_id = 'oldest'
SentinelIds == {LATEST_ID, OLDEST_ID}

UpdateOfSummary ==
    /\ ops < MaxOps
    /\ \E u \in Users, data \in MeasurementData(ops + 1) \ {EmptyDict}, id \in SentinelIds :
           Invoke(Event("UpdateBodyMeasurement", u) @@ data @@ ("measurement_id" :> id), NoFaults)

DeleteOfSummary ==
    /\ ops < MaxOps
    /\ \E u \in Users, id \in SentinelIds :
           Invoke(Event("DeleteBodyMeasurement", u) @@ ("measurement_id" :> id), NoFaults)

SentinelNext ==
    \/ AddBodyMeasurement
    \/ UpdateOfSummary
    \/ DeleteOfSummary

SentinelSpec == Init /\ [][SentinelNext]_vars

\* any MaxOps invocations, one at a time, whose measurement_id may also be
\* 'latest' or 'oldest'
AllIdsNext ==
    \/ AddBodyMeasurement
    \/ UpdateBodyMeasurement
    \/ DeleteBodyMeasurement
    \/ GetLatestMeasurements
    \/ GetOldestMeasurements
    \/ UpdateOfSummary
    \/ DeleteOfSummary

AllIdsSpec == Init /\ [][AllIdsNext]_vars

\* ------------------------------------------------------------- two users
TwoUsers == {"u1", "u2"}

\* the number of requests the two users make between them
MaxTwoUserOps == 2

AddByEither ==
    /\ ops < MaxTwoUserOps
    /\ \E u \in TwoUsers, data \in MeasurementData(ops + 1), t \in Times :
           Invoke(Event("AddBodyMeasurement", u) @@ data @@ ("measurement_time" :> t), NoFaults)

UpdateByEither ==
    /\ ops < MaxTwoUserOps
    /\ \E u \in TwoUsers, data \in MeasurementData(ops + 1), id \in Times :
           Invoke(Event("UpdateBodyMeasurement", u) @@ data @@ ("measurement_id" :> id), NoFaults)

DeleteByEither ==
    /\ ops < MaxTwoUserOps
    /\ \E u \in TwoUsers, id \in Times :
           Invoke(Event("DeleteBodyMeasurement", u) @@ ("measurement_id" :> id), NoFaults)

TwoUsersNext ==
    \/ AddByEither
    \/ UpdateByEither
    \/ DeleteByEither

TwoUsersSpec == Init /\ [][TwoUsersNext]_vars

\* --------------------------------------------------- requests of any kind
ToolNames ==
    {"AddBodyMeasurement", "UpdateBodyMeasurement", "DeleteBodyMeasurement",
     "GetLatestMeasurements", "GetOldestMeasurements", "GetMeasurementHistory"}

\* an operation name that is none of the handler's
UnknownTool == "RenameBodyMeasurement"

\* the parameters of the k-th request: metrics, readable or not, a time that
\* is measurement_time and measurement_id, and the period up to it
ParametersOf(k) ==
    {data @@ ("measurement_time" :> t) @@ ("measurement_id" :> t)
          @@ ("start_date" :> 1) @@ ("end_date" :> t) :
        data \in MeasurementData(k) \cup {"weight" :> NotANumber}, t \in Times}

\* with and without userId, for every operation name
AnyEvents(k) ==
    {("tool_name" :> name) @@ parameters :
        name \in ToolNames \cup {UnknownTool}, parameters \in ParametersOf(k)}
    \cup {Event(name, u) @@ parameters :
        name \in ToolNames \cup {UnknownTool}, u \in Users, parameters \in ParametersOf(k)}

\* a request of any kind, during which no storage call fails or every one does
AnyRequest ==
    /\ ops < MaxOps
    /\ \E event \in AnyEvents(ops + 1), faults \in {NoFaults, StorageCalls} :
           Invoke(event, faults)

AnyNext == AnyRequest

AnySpec == Init /\ [][AnyNext]_vars

\* ------------------------------------------------------ history queries
MaxLimit == 2

\* the date bounds of a query: the measurement times, an earlier and a later
\* date, and a text that sorts after 'oldest' (start_date and end_date are
\* put into the key condition as they come)
HistoryBounds == 0..(MaxTime + 1) \cup {OLDEST_ID + 1}

\* {} for a request without limit
HistoryLimits == {{n} : n \in 1..MaxLimit} \cup {{}}

LimitOf(chosen) == IF chosen = {} THEN EmptyDict ELSE "limit" :> (CHOOSE n \in chosen : TRUE)

HistoryEvent(u, start_date, end_date, chosen) ==
    Event("GetMeasurementHistory", u) @@ ("start_date" :> start_date)
        @@ ("end_date" :> end_date) @@ LimitOf(chosen)

GetMeasurementHistory ==
    /\ ops < MaxOps + 1
    /\ tool # "GetMeasurementHistory"
    /\ \E u \in Users, start_date \in HistoryBounds, end_date \in HistoryBounds,
          chosen \in HistoryLimits :
           Invoke(HistoryEvent(u, start_date, end_date, chosen), NoFaults)

\* adds and deletes, and history queries between and after them
HistoryNext ==
    \/ AddBodyMeasurement
    \/ DeleteBodyMeasurement
    \/ GetMeasurementHistory

HistorySpec == Init /\ [][HistoryNext]_vars

\* ------------------------------------------------ requests at the limits
\* the values around the limits that validate_measurement_values tests, in
\* tenths: 0, 0.5, 1, 1000, 1000.1 and 1001 kg; 49, 49.9, 50, 300, 300.1 and
\* 301 cm; -1, -0.1, 0, 100, 100.1 and 101 %
LimitValues(measurement_type) ==
    CASE measurement_type = "weight" ->
             {0, 5, Tenths(1), Tenths(1000), Tenths(1000) + 1, Tenths(1001)}
      [] measurement_type = "height" ->
             {Tenths(49), Tenths(50) - 1, Tenths(50), Tenths(300), Tenths(300) + 1, Tenths(301)}
      [] measurement_type = "body_fat_percentage" ->
             {Tenths(-1), -1, 0, Tenths(100), Tenths(100) + 1, Tenths(101)}

\* a metric left out, or given one of these values
LimitChoices(measurement_type) ==
    {EmptyDict} \cup {measurement_type :> v : v \in LimitValues(measurement_type)}

\* every request made of such values, for every set of metrics
RequestsAtLimits ==
    {w @@ h @@ b : w \in LimitChoices("weight"), h \in LimitChoices("height"),
                   b \in LimitChoices("body_fat_percentage")}

\* an add, to a user with no record, of values around the limits
AddAtLimits ==
    /\ ops < MaxOps
    /\ \E u \in Users, data \in RequestsAtLimits, t \in Times :
           /\ RecordIds(u) = {}
           /\ Invoke(Event("AddBodyMeasurement", u) @@ data @@ ("measurement_time" :> t),
                     NoFaults)

\* an update, after the add, with values around the limits
UpdateAtLimits ==
    /\ ops < MaxOps
    /\ tool = "AddBodyMeasurement"
    /\ \E u \in Users, data \in RequestsAtLimits :
           \E id \in RecordIds(u) :
               Invoke(Event("UpdateBodyMeasurement", u) @@ data @@ ("measurement_id" :> id),
                      NoFaults)

LimitsNext ==
    \/ AddAtLimits
    \/ UpdateAtLimits

LimitsSpec == Init /\ [][LimitsNext]_vars

\* ------------------------------------------- two adds running concurrently
\* An add in flight: its request, the storage call it makes next (pc) and the
\* items its last query returned (seen).  The calls of an add, in order:
\*   put_record, list_records, then for a first measurement
\*   first_latest, first_oldest, and otherwise
\*   read_latest, write_latest, read_oldest, write_oldest.
AddInFlight(user_id, measurement_data, measurement_time) ==
    [userId |-> user_id, measurement_data |-> measurement_data,
     measurement_time |-> measurement_time, pc |-> "put_record", seen |-> {}]

\* the table after the put of the item of that sort key which a maintenance
\* function, run on what its own query returned, has put (if it has put one)
PutOf(tbl, maintained, measurementId) ==
    LET items == {i \in maintained : i["measurementId"] = measurementId}
    IN  IF items = {} THEN tbl ELSE put_item(tbl, CHOOSE i \in items : TRUE)

At(c, pc) == c \in DOMAIN calls /\ calls[c].pc = pc

Goto(c, pc, seen) ==
    calls' = [calls EXCEPT ![c] = [@ EXCEPT !.pc = pc, !.seen = seen]]

\* the add returns its success dict
Finish(c) ==
    /\ response' = ("success" :> TRUE) @@ ("measurementId" :> calls[c].measurement_time)
    /\ tool' = "AddBodyMeasurement"
    /\ ops' = ops + 1
    /\ UNCHANGED <<failed, activities_table>>

\* table.put_item(Item=measurement_record)
PutRecord ==
    \E c \in DOMAIN calls :
        /\ At(c, "put_record")
        /\ table' = put_item(table, MeasurementRecord(calls[c].userId,
                                                      calls[c].measurement_data,
                                                      calls[c].measurement_time))
        /\ Goto(c, "list_records", {})
        /\ UNCHANGED <<response, tool, ops, failed, activities_table>>

\* existing_measurements = get_all_user_measurements(user_id), and the branch
\* on is_first_measurement
ListRecords ==
    \E c \in DOMAIN calls :
        /\ At(c, "list_records")
        /\ LET regular == regular_measurements(
                              get_all_user_measurements(table, calls[c].userId, FALSE))
           IN  Goto(c, IF Len(regular) <= 1 THEN "first_latest" ELSE "read_latest", {})
        /\ UNCHANGED <<table, response, tool, ops, failed, activities_table>>

\* handle_first_measurement: table.put_item(Item=latest_record)
PutFirstLatest ==
    \E c \in DOMAIN calls :
        /\ At(c, "first_latest")
        /\ table' = PutOf(table,
                        handle_first_measurement({}, calls[c].userId,
                            calls[c].measurement_data, calls[c].measurement_time,
                            NoFaults),
                        LATEST_ID)
        /\ Goto(c, "first_oldest", {})
        /\ UNCHANGED <<response, tool, ops, failed, activities_table>>

\* handle_first_measurement: table.put_item(Item=oldest_record)
PutFirstOldest ==
    \E c \in DOMAIN calls :
        /\ At(c, "first_oldest")
        /\ table' = PutOf(table,
                        handle_first_measurement({}, calls[c].userId,
                            calls[c].measurement_data, calls[c].measurement_time,
                            NoFaults),
                        OLDEST_ID)
        /\ Goto(c, "done", {})
        /\ Finish(c)

\* update_latest_record: the query of RecordTypeIndex for 'latest'
ReadLatest ==
    \E c \in DOMAIN calls :
        /\ At(c, "read_latest")
        /\ Goto(c, "write_latest",
                {i \in table : /\ i["userId"] = calls[c].userId
                               /\ "record_type" \in DOMAIN i
                               /\ i["record_type"] = "latest"})
        /\ UNCHANGED <<table, response, tool, ops, failed, activities_table>>

\* update_latest_record: the put_item of the record made from what the query
\* returned
WriteLatest ==
    \E c \in DOMAIN calls :
        /\ At(c, "write_latest")
        /\ table' = PutOf(table,
                        update_latest_record(calls[c].seen, calls[c].userId,
                            calls[c].measurement_data, calls[c].measurement_time,
                            NoFaults),
                        LATEST_ID)
        /\ Goto(c, "read_oldest", {})
        /\ UNCHANGED <<response, tool, ops, failed, activities_table>>

\* update_oldest_record: the query of RecordTypeIndex for 'oldest'
ReadOldest ==
    \E c \in DOMAIN calls :
        /\ At(c, "read_oldest")
        /\ Goto(c, "write_oldest",
                {i \in table : /\ i["userId"] = calls[c].userId
                               /\ "record_type" \in DOMAIN i
                               /\ i["record_type"] = "oldest"})
        /\ UNCHANGED <<table, response, tool, ops, failed, activities_table>>

\* update_oldest_record: the put_item of the record made from what the query
\* returned
WriteOldest ==
    \E c \in DOMAIN calls :
        /\ At(c, "write_oldest")
        /\ table' = PutOf(table,
                        update_oldest_record(calls[c].seen, calls[c].userId,
                            calls[c].measurement_data, calls[c].measurement_time,
                            NoFaults),
                        OLDEST_ID)
        /\ Goto(c, "done", {})
        /\ Finish(c)

\* two adds for the same user, of different measurement times, start on the
\* empty table
RaceInit ==
    /\ table = {}
    /\ response = EmptyDict
    /\ tool = ""
    /\ ops = 0
    /\ failed = NoFaults
    /\ activities_table = {}
    /\ \E u \in Users, t1 \in Times, t2 \in Times,
          d1 \in MeasurementData(1) \ {EmptyDict}, d2 \in MeasurementData(2) \ {EmptyDict} :
           /\ t1 # t2
           /\ calls = <<AddInFlight(u, d1, t1), AddInFlight(u, d2, t2)>>

RaceNext ==
    \/ PutRecord
    \/ ListRecords
    \/ PutFirstLatest
    \/ PutFirstOldest
    \/ ReadLatest
    \/ WriteLatest
    \/ ReadOldest
    \/ WriteOldest

RaceSpec == RaceInit /\ [][RaceNext]_vars

\* ---------------------------------- an add and a delete running concurrently
\* a delete in flight: the storage call it makes next (pc) and what its last
\* listing returned (seen).  Its calls, in order:
\*   get_record, delete_record, list_for_latest, store_latest,
\*   list_for_oldest, store_oldest.
DeleteInFlight(user_id, measurement_id) ==
    [userId |-> user_id, measurement_id |-> measurement_id, pc |-> "get_record", seen |-> {}]

\* the table after the put or the delete_item that a recalculation, run on
\* what its own listing returned, has made of the summary of that sort key
StoreOf(tbl, maintained, user_id, measurementId) ==
    LET items == {i \in maintained : i["measurementId"] = measurementId}
    IN  IF items = {} THEN delete_item(tbl, user_id, measurementId)
        ELSE put_item(tbl, CHOOSE i \in items : TRUE)

\* table.get_item of the target record; without it the delete raises ValueError
GetRecord ==
    \E c \in DOMAIN calls :
        /\ At(c, "get_record")
        /\ IF get_item(table, calls[c].userId, calls[c].measurement_id) = {}
           THEN /\ Goto(c, "done", {})
                /\ response' = ("success" :> FALSE) @@ ("errorType" :> "ValidationError")
                /\ tool' = "DeleteBodyMeasurement"
                /\ ops' = ops + 1
                /\ UNCHANGED <<table, failed, activities_table>>
           ELSE /\ Goto(c, "delete_record", {})
                /\ UNCHANGED <<table, response, tool, ops, failed, activities_table>>

\* table.delete_item of the target record
DeleteRecord ==
    \E c \in DOMAIN calls :
        /\ At(c, "delete_record")
        /\ table' = delete_item(table, calls[c].userId, calls[c].measurement_id)
        /\ Goto(c, "list_for_latest", {})
        /\ UNCHANGED <<response, tool, ops, failed, activities_table>>

\* recalculate_latest_record_after_deletion: get_all_user_measurements
ListForLatest ==
    \E c \in DOMAIN calls :
        /\ At(c, "list_for_latest")
        /\ Goto(c, "store_latest", {i \in table : i["userId"] = calls[c].userId})
        /\ UNCHANGED <<table, response, tool, ops, failed, activities_table>>

\* recalculate_latest_record_after_deletion: the delete_item or the put_item
\* of MEASUREMENT#latest made from what the listing returned
StoreLatest ==
    \E c \in DOMAIN calls :
        /\ At(c, "store_latest")
        /\ table' = StoreOf(table,
                        recalculate_latest_record_after_deletion(calls[c].seen,
                            calls[c].userId, NoFaults),
                        calls[c].userId, LATEST_ID)
        /\ Goto(c, "list_for_oldest", {})
        /\ UNCHANGED <<response, tool, ops, failed, activities_table>>

\* recalculate_oldest_record_after_deletion: get_all_user_measurements
ListForOldest ==
    \E c \in DOMAIN calls :
        /\ At(c, "list_for_oldest")
        /\ Goto(c, "store_oldest", {i \in table : i["userId"] = calls[c].userId})
        /\ UNCHANGED <<table, response, tool, ops, failed, activities_table>>

\* recalculate_oldest_record_after_deletion: the delete_item or the put_item
\* of MEASUREMENT#oldest made from what the listing returned; the delete
\* returns its success dict
StoreOldest ==
    \E c \in DOMAIN calls :
        /\ At(c, "store_oldest")
        /\ table' = StoreOf(table,
                        recalculate_oldest_record_after_deletion(calls[c].seen,
                            calls[c].userId, NoFaults),
                        calls[c].userId, OLDEST_ID)
        /\ Goto(c, "done", {})
        /\ response' = ("success" :> TRUE)
                            @@ ("deletedMeasurementId" :> calls[c].measurement_id)
        /\ tool' = "DeleteBodyMeasurement"
        /\ ops' = ops + 1
        /\ UNCHANGED <<failed, activities_table>>

\* an add and a delete for the same user start together, on the empty table
\* or on the table that one completed add has left
AddDeleteInit ==
    /\ response = EmptyDict
    /\ tool = ""
    /\ ops = 0
    /\ failed = NoFaults
    /\ activities_table = {}
    /\ \E u \in Users, t0 \in Times, d0 \in MeasurementData(1) :
           table = lambda_handler({}, Event("AddBodyMeasurement", u) @@ d0
                                          @@ ("measurement_time" :> t0), NoFaults).table
    /\ \E u \in Users, t1 \in Times, t2 \in Times, d1 \in MeasurementData(2) \ {EmptyDict} :
           calls = <<AddInFlight(u, d1, t1), DeleteInFlight(u, t2)>>

AddDeleteNext ==
    \/ PutRecord
    \/ ListRecords
    \/ PutFirstLatest
    \/ PutFirstOldest
    \/ ReadLatest
    \/ WriteLatest
    \/ ReadOldest
    \/ WriteOldest
    \/ GetRecord
    \/ DeleteRecord
    \/ ListForLatest
    \/ StoreLatest
    \/ ListForOldest
    \/ StoreOldest

AddDeleteSpec == AddDeleteInit /\ [][AddDeleteNext]_vars

\* ------------------------------------------------------ the activity handler
\* src/lambda/activity/handler.py.  An item of activities_table has userId,
\* date and activities, a list of dicts; a date is a number.  An items value
\* of a request is tagged with its Python type, str or list.
MaxActivities == 2

ActivityDates == 1..2

Str(text) == [type |-> "str", value |-> text]

List(texts) == [type |-> "list", value |-> texts]

\* the activities a request can carry; the last one lacks its description
ActivityInputs ==
    {[time |-> 1, activityType |-> "meal", description |-> "breakfast", items |-> Str("rice")],
     [time |-> 2, activityType |-> "exercise", description |-> "run"],
     [time |-> 3, activityType |-> "meal", description |-> "lunch", items |-> List(<<"soup">>)],
     [time |-> 1, activityType |-> "snack", description |-> "tea", items |-> Str("")],
     [time |-> 4, activityType |-> "mood"]}

ActivityLists == UNION {[1..n -> ActivityInputs] : n \in 0..MaxActivities}

\* str(uuid.uuid4()) of the idx-th activity of the k-th invocation: an id
\* that no other activity has
uuid4(k, idx) == k * (MaxActivities + 1) + idx

\* activity["activityId"] = ..., and items made a list
WithIdAndItems(activity, activityId) ==
    LET items == IF "items" \notin DOMAIN activity THEN <<>>
                 ELSE IF activity["items"].type = "str"
                 THEN (IF activity["items"].value # "" THEN <<activity["items"].value>>
                       ELSE <<>>)
                 ELSE activity["items"].value
    IN  ("activityId" :> activityId) @@ ("items" :> items)
            @@ [k \in (DOMAIN activity) \ {"items"} |-> activity[k]]

\* table.get_item(Key={"userId": user_id, "date": date}) of the activities table
get_activity_item(tbl, user_id, date) ==
    {i \in tbl : i["userId"] = user_id /\ i["date"] = date}

\* add_activities storing the new activities in place of the stored ones
add_activities_replacing(tbl, parameters, k, faults) ==
    LET user_id == parameters["userId"]
        date == parameters["date"]
        given == parameters["activities"]
        activities == [idx \in DOMAIN given |-> WithIdAndItems(given[idx], uuid4(k, idx))]
        found == get_activity_item(tbl, user_id, date)
    IN  IF "date" \notin DOMAIN parameters THEN Raise(tbl, "ValueError")
        ELSE IF "activities" \notin DOMAIN parameters \/ given = <<>>
        THEN Raise(tbl, "ValueError")
        ELSE IF \E idx \in DOMAIN given :
                    {"time", "activityType", "description"} \ DOMAIN given[idx] # {}
        THEN Raise(tbl, "ValueError")
        ELSE IF "read_record" \in faults \/ "write_record" \in faults
        THEN Raise(tbl, "ClientError")
        ELSE Return((tbl \ found)
                        \cup {[userId |-> user_id, date |-> date, activities |-> activities]},
                    ("success" :> TRUE) @@ ("date" :> date)
                        @@ ("addedCount" :> Len(activities))
                        @@ ("addedActivityIds" :>
                                [idx \in DOMAIN activities |-> activities[idx]["activityId"]])
                        @@ ("addedActivities" :> activities))

\* k: the number of the invocation, for the ids it generates
add_activities(tbl, parameters, k, faults) ==
    LET user_id == parameters["userId"]
        date == parameters["date"]
        given == parameters["activities"]
        activities == [idx \in DOMAIN given |-> WithIdAndItems(given[idx], uuid4(k, idx))]
        found == get_activity_item(tbl, user_id, date)
        item == CHOOSE i \in found : TRUE
        existing_activities ==
            (IF "activities" \in DOMAIN item THEN item["activities"] ELSE <<>>) \o activities
    IN  IF "date" \notin DOMAIN parameters THEN Raise(tbl, "ValueError")
        ELSE IF "activities" \notin DOMAIN parameters \/ given = <<>>
        THEN Raise(tbl, "ValueError")
        ELSE IF \E idx \in DOMAIN given :
                    {"time", "activityType", "description"} \ DOMAIN given[idx] # {}
        THEN Raise(tbl, "ValueError")
        ELSE IF "read_record" \in faults \/ "write_record" \in faults
        THEN Raise(tbl, "ClientError")
        ELSE Return(IF found # {}
                    THEN (tbl \ found)
                             \cup {DictUpdate(item, "activities" :> existing_activities)}
                    ELSE tbl \cup {[userId |-> user_id, date |-> date,
                                    activities |-> activities]},
                    ("success" :> TRUE) @@ ("date" :> date)
                        @@ ("addedCount" :> Len(activities))
                        @@ ("addedActivityIds" :>
                                [idx \in DOMAIN activities |-> activities[idx]["activityId"]])
                        @@ ("addedActivities" :> activities))

\* one invocation of the activity Lambda function with the tool AddActivities
AddActivities ==
    /\ ops < MaxOps
    /\ \E u \in Users, date \in ActivityDates, given \in ActivityLists :
           LET out == add_activities(activities_table,
                                     Event("AddActivities", u) @@ ("date" :> date)
                                         @@ ("activities" :> given),
                                     ops + 1, NoFaults)
           IN  /\ activities_table' = out.table
               /\ response' = IF out.raised = "ValueError"
                               THEN ("success" :> FALSE) @@ ("errorType" :> "ValidationError")
                               ELSE IF out.raised = "ClientError"
                               THEN ("success" :> FALSE) @@ ("errorType" :> "DatabaseError")
                               ELSE out.result
               /\ tool' = "AddActivities"
               /\ ops' = ops + 1
               /\ UNCHANGED <<table, failed, calls>>

ActivityNext == AddActivities

ActivitySpec == Init /\ [][ActivityNext]_vars

\* ------------------------------------------------- what the claims speak of
Regular(u) == {i \in table : i["userId"] = u /\ IsRegularItem(i)}

Summary(u, id) == {i \in table : i["userId"] = u /\ i["measurementId"] = id}

HasLatest(u) == Summary(u, LATEST_ID) # {}

HasOldest(u) == Summary(u, OLDEST_ID) # {}

Latest(u) == CHOOSE i \in Summary(u, LATEST_ID) : TRUE

Oldest(u) == CHOOSE i \in Summary(u, OLDEST_ID) : TRUE

Carrying(u, m) == {r \in Regular(u) : m \in DOMAIN r}

\* the regular record of the greatest / smallest measurement_time carrying m
Newest(u, m) ==
    CHOOSE r \in Carrying(u, m) :
        \A q \in Carrying(u, m) : q["measurement_time"] <= r["measurement_time"]

Eldest(u, m) ==
    CHOOSE r \in Carrying(u, m) :
        \A q \in Carrying(u, m) : q["measurement_time"] >= r["measurement_time"]

Succeeded == "success" \in DOMAIN response /\ response["success"]

\* Latest holds, for every metric, the value and the time of the newest record
\* carrying it, and no metric that no record carries
LatestIsRecomputed(u) ==
    /\ HasLatest(u)
    /\ \A m \in Metrics :
          IF Carrying(u, m) = {}
          THEN m \notin DOMAIN Latest(u) /\ LastUpdateKey(m) \notin DOMAIN Latest(u)
          ELSE /\ m \in DOMAIN Latest(u)
               /\ LastUpdateKey(m) \in DOMAIN Latest(u)
               /\ Latest(u)[m] = Newest(u, m)[m]
               /\ Latest(u)[LastUpdateKey(m)] = Newest(u, m)["measurement_time"]

OldestIsRecomputed(u) ==
    /\ HasOldest(u)
    /\ \A m \in Metrics :
          IF Carrying(u, m) = {}
          THEN m \notin DOMAIN Oldest(u) /\ FirstRecordKey(m) \notin DOMAIN Oldest(u)
          ELSE /\ m \in DOMAIN Oldest(u)
               /\ FirstRecordKey(m) \in DOMAIN Oldest(u)
               /\ Oldest(u)[m] = Eldest(u, m)[m]
               /\ Oldest(u)[FirstRecordKey(m)] = Eldest(u, m)["measurement_time"]

\* ------------------------------------------------------------------ claims
\* C1: after any sequence of completed adds, updates and deletes, for every
\* metric some regular record carries, Latest holds the value of the record
\* of the greatest measurement_time carrying it.
LatestInvariant ==
    \A u \in Users, m \in Metrics :
        Carrying(u, m) # {} =>
            /\ HasLatest(u)
            /\ m \in DOMAIN Latest(u)
            /\ Latest(u)[m] = Newest(u, m)[m]

\* C2: after any sequence of completed adds, updates and deletes, for every
\* metric some regular record carries, Oldest holds the value of the record
\* of the smallest measurement_time carrying it.
OldestInvariant ==
    \A u \in Users, m \in Metrics :
        Carrying(u, m) # {} =>
            /\ HasOldest(u)
            /\ m \in DOMAIN Oldest(u)
            /\ Oldest(u)[m] = Eldest(u, m)[m]

\* C3: a user with no regular record has neither summary, and a query of
\* Latest or Oldest made then succeeds with an empty measurements map.
EmptyInvariant ==
    \A u \in Users :
        Regular(u) = {} =>
            /\ ~HasLatest(u)
            /\ ~HasOldest(u)
            /\ tool \in {"GetLatestMeasurements", "GetOldestMeasurements"} =>
                   Succeeded /\ response["measurements"] = EmptyDict

\* a delete succeeded and took the user's last regular record
EmptyInvariantWitness ==
    /\ tool = "DeleteBodyMeasurement"
    /\ Succeeded
    /\ \A u \in Users : Regular(u) = {}

\* C4: a metric that no regular record of the user carries is in neither
\* summary of the user.
NoStaleMetric ==
    \A u \in Users, m \in Metrics :
        Carrying(u, m) = {} =>
            /\ HasLatest(u) => m \notin DOMAIN Latest(u)
            /\ HasOldest(u) => m \notin DOMAIN Oldest(u)

\* C5: an add that succeeds for a user with no regular record leaves Latest
\* and Oldest both present, with exactly the metrics and values of the added
\* record and every last_<metric>_update and first_<metric>_record equal to
\* its measurement time.
IsCloneOfOnlyRecord(u) ==
    /\ Cardinality(Regular(u)) = 1
    /\ HasLatest(u)
    /\ HasOldest(u)
    /\ \A r \in Regular(u) :
          /\ MetricsOf(Latest(u)) = MetricsOf(r)
          /\ MetricsOf(Oldest(u)) = MetricsOf(r)
          /\ \A m \in Metrics :
                IF m \in DOMAIN r
                THEN /\ LastUpdateKey(m) \in DOMAIN Latest(u)
                     /\ FirstRecordKey(m) \in DOMAIN Oldest(u)
                     /\ Latest(u)[LastUpdateKey(m)] = r["measurement_time"]
                     /\ Oldest(u)[FirstRecordKey(m)] = r["measurement_time"]
                ELSE /\ LastUpdateKey(m) \notin DOMAIN Latest(u)
                     /\ FirstRecordKey(m) \notin DOMAIN Oldest(u)

SingletonCloning ==
    [][\A u \in Users :
          (Regular(u) = {} /\ tool' = "AddBodyMeasurement" /\ Succeeded')
              => IsCloneOfOnlyRecord(u)']_vars

\* the first invocation was an add and it succeeded
SingletonCloningWitness ==
    /\ ops = 1
    /\ tool = "AddBodyMeasurement"
    /\ Succeeded
    /\ \A u \in Users : IsCloneOfOnlyRecord(u)

\* C6: whenever the user has exactly one regular record, Latest and Oldest
\* both exist and each carries exactly the metric values of that record.
SingularInvariant ==
    \A u \in Users :
        Cardinality(Regular(u)) = 1 =>
            /\ HasLatest(u)
            /\ HasOldest(u)
            /\ \A r \in Regular(u) :
                  /\ MetricsOf(Latest(u)) = MetricsOf(r)
                  /\ MetricsOf(Oldest(u)) = MetricsOf(r)

\* C7: after a delete that succeeds and leaves a regular record, Latest holds
\* per metric the value and time of the newest remaining record carrying it,
\* Oldest those of the eldest, and neither holds a metric no record carries.
DeleteRecomputes ==
    \A u \in Users :
        (tool = "DeleteBodyMeasurement" /\ Succeeded /\ Regular(u) # {})
            => LatestIsRecomputed(u) /\ OldestIsRecomputed(u)

\* a delete succeeded and left two records carrying the same metric
DeleteRecomputesWitness ==
    /\ tool = "DeleteBodyMeasurement"
    /\ Succeeded
    /\ \E u \in Users, m \in Metrics : Cardinality(Carrying(u, m)) >= 2

\* C8: after an update that succeeds, Latest holds per metric the value and
\* time of the newest regular record carrying it, and no metric that no
\* record carries.
UpdateRecomputesLatest ==
    \A u \in Users :
        (tool = "UpdateBodyMeasurement" /\ Succeeded) => LatestIsRecomputed(u)

\* an update succeeded while two records carry the same metric, and Latest
\* has dropped a metric that no record carries and Oldest still holds
UpdateRecomputesLatestWitness ==
    /\ tool = "UpdateBodyMeasurement"
    /\ Succeeded
    /\ \E u \in Users :
          /\ \E m \in Metrics : Cardinality(Carrying(u, m)) >= 2
          /\ \E m \in Metrics :
                /\ Carrying(u, m) = {}
                /\ HasOldest(u)
                /\ m \in DOMAIN Oldest(u)

\* C9: an update leaves the Oldest summary as it was: its existence, its
\* metric values and its first_<metric>_record times.
UpdateKeepsOldest ==
    [][tool' = "UpdateBodyMeasurement" =>
          \A u \in Users : Summary(u, OLDEST_ID)' = Summary(u, OLDEST_ID)]_vars

\* an update succeeded on the only record, and Oldest holds the value the
\* record had before
UpdateKeepsOldestWitness ==
    /\ tool = "UpdateBodyMeasurement"
    /\ Succeeded
    /\ \E u \in Users, m \in Metrics :
          /\ Cardinality(Regular(u)) = 1
          /\ HasOldest(u)
          /\ m \in DOMAIN Oldest(u)
          /\ \A r \in Carrying(u, m) : Oldest(u)[m] # r[m]

\* C10: with adds of strictly increasing measurement times only, and after
\* the delete of the earliest record that follows them, Latest holds per
\* metric the value of the add of the greatest time carrying it and Oldest
\* that of the smallest time.
InOrderAdds ==
    \A u \in Users, m \in Metrics :
        Carrying(u, m) # {} =>
            /\ HasLatest(u) /\ m \in DOMAIN Latest(u)
            /\ HasOldest(u) /\ m \in DOMAIN Oldest(u)
            /\ Latest(u)[m] = Newest(u, m)[m]
            /\ Oldest(u)[m] = Eldest(u, m)[m]
            /\ Latest(u)[LastUpdateKey(m)] = Newest(u, m)["measurement_time"]
            /\ Oldest(u)[FirstRecordKey(m)] = Eldest(u, m)["measurement_time"]

\* three adds in order, then the delete of the earliest: Oldest reports the
\* weight of the second add, which differs from the weight Latest reports
InOrderAddsWitness ==
    /\ tool = "DeleteBodyMeasurement"
    /\ Succeeded
    /\ \E u \in Users :
          /\ Cardinality(Carrying(u, "weight")) = 2
          /\ Oldest(u)["first_weight_record"] = 2
          /\ Latest(u)["last_weight_update"] = 3
          /\ Oldest(u)["weight"] # Latest(u)["weight"]

\* what a summary of the user holds for a metric: its value and its
\* companion time, as far as present
LatestEntry(u, m) ==
    IF HasLatest(u)
    THEN [k \in {m, LastUpdateKey(m)} \cap DOMAIN Latest(u) |-> Latest(u)[k]]
    ELSE EmptyDict

OldestEntry(u, m) ==
    IF HasOldest(u)
    THEN [k \in {m, FirstRecordKey(m)} \cap DOMAIN Oldest(u) |-> Oldest(u)[k]]
    ELSE EmptyDict

\* the regular record the last add, update or delete named in its response
Named(u) ==
    {r \in Regular(u) :
        "measurementId" \in DOMAIN response /\ r["measurementId"] = response["measurementId"]}

\* the step is a successful add for user u and m is a metric the added record
\* does not carry while a summary of u holds it
AddNotCarrying(u, m) ==
    /\ tool' = "AddBodyMeasurement"
    /\ Succeeded'
    /\ \A r \in Named(u)' : m \notin DOMAIN r
    /\ (LatestEntry(u, m) # EmptyDict \/ OldestEntry(u, m) # EmptyDict)

\* C11, as stated: an add leaves unchanged, in Latest and in Oldest, the
\* value and the companion time of every metric the added record does not
\* carry.
MetricIndependenceOfAnyAdd ==
    [][\A u \in Users, m \in Metrics :
          AddNotCarrying(u, m) =>
              /\ LatestEntry(u, m)' = LatestEntry(u, m)
              /\ OldestEntry(u, m)' = OldestEntry(u, m)]_vars

\* C11, amended: an add after which the user has at least two regular
\* records leaves unchanged, in Latest and in Oldest, the value and the
\* companion time of every metric the added record does not carry.
MetricIndependence ==
    [][\A u \in Users, m \in Metrics :
          (AddNotCarrying(u, m) /\ Cardinality(Regular(u)') >= 2) =>
              /\ LatestEntry(u, m)' = LatestEntry(u, m)
              /\ OldestEntry(u, m)' = OldestEntry(u, m)]_vars

\* an add of a weight alone succeeded for a user with two records, and both
\* summaries hold a height and its time
MetricIndependenceWitness ==
    /\ tool = "AddBodyMeasurement"
    /\ Succeeded
    /\ \E u \in Users :
          /\ Cardinality(Regular(u)) >= 2
          /\ \A r \in Named(u) : MetricsOf(r) # EmptyDict /\ DOMAIN MetricsOf(r) = {"weight"}
          /\ Named(u) # {}
          /\ DOMAIN LatestEntry(u, "height") = {"height", "last_height_update"}
          /\ DOMAIN OldestEntry(u, "height") = {"height", "first_height_record"}

\* the tools that write
WritingTools == {"AddBodyMeasurement", "UpdateBodyMeasurement", "DeleteBodyMeasurement"}

\* the response of the failure kind
Failure(errorType) == ("success" :> FALSE) @@ ("errorType" :> errorType)

\* C12: an add, update or delete whose primary write went through (the regular
\* records changed) returns success, whichever of the storage calls made
\* afterwards to maintain Latest and Oldest fail.
SecondaryFailuresNotFatal ==
    [][(tool' \in WritingTools /\ \E u \in Users : Regular(u)' # Regular(u))
          => Succeeded']_vars

\* an add to a user with a record succeeded although every storage call made
\* after the put of the record failed, and the summaries are those of before
SecondaryFailuresNotFatalWitness ==
    /\ tool = "AddBodyMeasurement"
    /\ Succeeded
    /\ failed = SecondaryCalls("AddBodyMeasurement")
    /\ \E u \in Users :
          /\ Cardinality(Regular(u)) = 2
          /\ \E r \in Named(u) : HasLatest(u) /\ MetricsOf(Latest(u)) # MetricsOf(r)

\* C13: an add, update or delete of a well-formed request whose primary
\* storage call (the read of the target, or the put or delete of the regular
\* record) fails returns success false with errorType DatabaseError and
\* leaves the whole table, Latest and Oldest included, as it was.
PrimaryFailuresFatal ==
    [][(tool' \in WritingTools /\ failed' \cap {"read_record", "write_record"} # {})
          => /\ response' = Failure("DatabaseError")
             /\ table' = table]_vars

\* the delete of an existing record failed at table.delete_item, and the user
\* still has the record and both summaries
PrimaryFailuresFatalWitness ==
    /\ tool = "DeleteBodyMeasurement"
    /\ failed = {"write_record"}
    /\ response = Failure("DatabaseError")
    /\ \E u \in Users : Regular(u) # {} /\ HasLatest(u) /\ HasOldest(u)

\* both concurrent adds have returned
BothDone == calls # <<>> /\ \A c \in DOMAIN calls : calls[c].pc = "done"

\* the request of an add in flight
EventOfCall(c) ==
    Event("AddBodyMeasurement", calls[c].userId) @@ calls[c].measurement_data
        @@ ("measurement_time" :> calls[c].measurement_time)

\* the table the two adds leave when one runs to completion before the other
\* starts
Sequential(first, second) ==
    lambda_handler(lambda_handler({}, EventOfCall(first), NoFaults).table,
                   EventOfCall(second), NoFaults).table

SummaryIn(tbl, u, id) == {i \in tbl : i["userId"] = u /\ i["measurementId"] = id}

\* the regular record of an add in flight is stored
Stored(c) ==
    \E r \in Regular(calls[c].userId) :
        /\ r["measurementId"] = calls[c].measurement_time
        /\ MetricsOf(r) = calls[c].measurement_data

\* the summary holds every metric of the add, each with the add's value
Reflects(summary, c) ==
    \A m \in DOMAIN calls[c].measurement_data :
        m \in DOMAIN summary /\ summary[m] = calls[c].measurement_data[m]

\* the summary differs from what either sequential order of the adds leaves
DiffersFromBothOrders(u, id) ==
    /\ Summary(u, id) # SummaryIn(Sequential(1, 2), u, id)
    /\ Summary(u, id) # SummaryIn(Sequential(2, 1), u, id)

\* C14: whatever the interleaving of the storage calls of two concurrent adds
\* of a user, once both have returned both regular records are stored, both
\* summaries exist and Latest holds the metrics and values of at least one of
\* the adds; and there is an interleaving (the witness) after which Latest
\* holds those of one add only and differs from what either sequential order
\* of the two adds leaves.
RaceKeepsRecords ==
    BothDone =>
        /\ \A c \in DOMAIN calls : Stored(c)
        /\ \A u \in Users :
              /\ HasLatest(u)
              /\ HasOldest(u)
              /\ \E c \in DOMAIN calls : Reflects(Latest(u), c)

\* both adds have returned, both records are stored, and Latest holds the
\* metrics of one add and lacks a metric of the other, unlike after either
\* sequential order
RaceKeepsRecordsWitness ==
    /\ BothDone
    /\ \A c \in DOMAIN calls : Stored(c)
    /\ \E u \in Users :
          /\ DiffersFromBothOrders(u, LATEST_ID)
          /\ \E c \in DOMAIN calls, d \in DOMAIN calls :
                /\ Reflects(Latest(u), c)
                /\ \E m \in DOMAIN calls[d].measurement_data : m \notin DOMAIN Latest(u)

\* C15: an update or delete that runs alone and without failure after an add
\* whose maintenance of Latest and Oldest met a failing storage call, and that
\* leaves a regular record, leaves Latest and Oldest holding per metric the
\* value and time of the newest and of the eldest record carrying it.
SelfHealing ==
    [][\A u \in Users :
          (/\ tool' \in {"UpdateBodyMeasurement", "DeleteBodyMeasurement"}
           /\ Succeeded'
           /\ failed # NoFaults
           /\ ~(LatestIsRecomputed(u) /\ OldestIsRecomputed(u))
           /\ Regular(u)' # {})
              => LatestIsRecomputed(u)' /\ OldestIsRecomputed(u)']_vars

\* what lambda_handler returns when it rejects a request and writes nothing
Rejected(tbl) == [table |-> tbl, response |-> Failure("ValidationError")]

\* C16: in every state, an update (whatever metrics it names) or a delete
\* naming a measurement_id under which the user has no record returns success
\* false with errorType ValidationError and leaves the table, regular records
\* and summaries, as it is; so a delete of the record just deleted is refused.
NotFoundChangesNothing ==
    \A u \in Users : \A id \in Times \ RecordIds(u) :
        /\ lambda_handler(table, Event("DeleteBodyMeasurement", u) @@ ("measurement_id" :> id),
                          NoFaults) = Rejected(table)
        /\ \A data \in MeasurementData(ops + 1) :
              lambda_handler(table,
                             Event("UpdateBodyMeasurement", u) @@ data
                                 @@ ("measurement_id" :> id),
                             NoFaults) = Rejected(table)

\* a delete was refused as not found while the user has two records and both
\* summaries
NotFoundChangesNothingWitness ==
    /\ tool = "DeleteBodyMeasurement"
    /\ response = Failure("ValidationError")
    /\ \E u \in Users :
          /\ Cardinality(Regular(u)) = 2
          /\ HasLatest(u) /\ HasOldest(u)

\* C17: in every state, an add or an update that names none of weight, height
\* and body_fat_percentage returns success false with errorType
\* ValidationError and leaves the table as it is; it makes no storage call,
\* as the outcome is the same when every storage call fails.
MetricRequired ==
    \A u \in Users, t \in Times, faults \in {NoFaults, StorageCalls} :
        /\ lambda_handler(table, Event("AddBodyMeasurement", u) @@ ("measurement_time" :> t),
                          faults) = Rejected(table)
        /\ lambda_handler(table, Event("UpdateBodyMeasurement", u) @@ ("measurement_id" :> t),
                          faults) = Rejected(table)

\* an add naming no metric was refused while the user has two records
MetricRequiredWitness ==
    /\ tool = "AddBodyMeasurement"
    /\ response = Failure("ValidationError")
    /\ \E u \in Users : Cardinality(Regular(u)) = 2 /\ HasLatest(u) /\ HasOldest(u)

\* weight in [1, 1000], height in [50, 300], body_fat_percentage in [0, 100]
InStatedRanges(d) ==
    /\ "weight" \in DOMAIN d => Tenths(1) <= d["weight"] /\ d["weight"] <= Tenths(1000)
    /\ "height" \in DOMAIN d => Tenths(50) <= d["height"] /\ d["height"] <= Tenths(300)
    /\ "body_fat_percentage" \in DOMAIN d =>
           0 <= d["body_fat_percentage"] /\ d["body_fat_percentage"] <= Tenths(100)

\* the request passes validation: it is answered with success, and not
\* refused with the table left as it is
Accepted(tbl, event) ==
    LET done == lambda_handler(tbl, event, NoFaults)
    IN  "success" \in DOMAIN done.response /\ done.response["success"]

\* C18: in every state, an add, or an update of an existing record, naming
\* at least one metric is accepted exactly when every value it names lies in
\* the stated range, bounds included, values between whole numbers included;
\* when it is not, it is refused with ValidationError before any storage
\* call.
RangeValidation ==
    \A u \in Users, data \in RequestsAtLimits \ {EmptyDict} :
        /\ \A t \in Times :
              LET event == Event("AddBodyMeasurement", u) @@ data @@ ("measurement_time" :> t)
              IN  IF InStatedRanges(data)
                  THEN Accepted(table, event)
                  ELSE lambda_handler(table, event, StorageCalls) = Rejected(table)
        /\ \A id \in RecordIds(u) :
              LET event == Event("UpdateBodyMeasurement", u) @@ data @@ ("measurement_id" :> id)
              IN  IF InStatedRanges(data)
                  THEN Accepted(table, event)
                  ELSE lambda_handler(table, event, StorageCalls) = Rejected(table)

\* the regular records of u whose id lies in [start_date, end_date 'Z'],
\* newest first
InPeriod(u, start_date, end_date) ==
    Reversed(BySortKey({i \in Regular(u) :
                 Between(i["measurementId"], <<start_date>>, <<end_date, Z>>)}))

\* C19: in every state, a history query of any bounds and any limit answers
\* with the min(limit, n) newest of the n regular records in the period, in
\* descending id order and without a summary, with count their number, and
\* leaves the table as it is.
HistoryQuery ==
    \A u \in Users, start_date \in HistoryBounds, end_date \in HistoryBounds,
       chosen \in HistoryLimits :
        LET event == HistoryEvent(u, start_date, end_date, chosen)
            done == lambda_handler(table, event, NoFaults)
            limit == IF chosen = {} THEN DEFAULT_LIMIT ELSE event["limit"]
            newest == CleanAll(FirstItems(InPeriod(u, start_date, end_date), limit))
        IN  /\ done.table = table
            /\ done.response["success"]
            /\ done.response["measurements"] = newest
            /\ done.response["count"] = Len(newest)

\* the regular records of u in a table
RegularIn(tbl, u) == {i \in tbl : i["userId"] = u /\ IsRegularItem(i)}

\* the update just answered succeeded
Updated(answer, by) ==
    /\ by = "UpdateBodyMeasurement"
    /\ "success" \in DOMAIN answer
    /\ answer["success"]

\* before and after are the same but for the metrics of named
MergedInto(before, after, named) ==
    /\ after["measurementId"] = before["measurementId"]
    /\ after["measurement_time"] = before["measurement_time"]
    /\ \A m \in Metrics \ named :
           /\ m \in DOMAIN after <=> m \in DOMAIN before
           /\ m \in DOMAIN before => after[m] = before[m]

\* C20: a successful update leaves, in the record it names, every metric the
\* request does not name, the id and the measurement_time as they were, and
\* leaves every other regular record of the user as it was.
UpdateMerges ==
    [][Updated(response', tool') =>
         \A u \in Users :
             LET id == response'["measurementId"]
                 named == DOMAIN response'["updatedValues"]
                 before == get_item(table, u, id)
                 after == get_item(table', u, id)
             IN  /\ before # {} /\ after # {}
                 /\ \A b \in before, a \in after : MergedInto(b, a, named)
                 /\ RegularIn(table', u) \ after = RegularIn(table, u) \ before]_vars

\* an update of one metric answered with success: the record it names holds
\* the new value of that metric and a metric the request did not name, and
\* the user has another regular record
UpdateMergesWitness ==
    /\ Updated(response, tool)
    /\ \E u \in Users :
           \E r \in get_item(table, u, response["measurementId"]) :
               /\ \E m \in DOMAIN response["updatedValues"] :
                      r[m] = response["updatedValues"][m]
               /\ \E m \in Metrics \ DOMAIN response["updatedValues"] :
                      m \in DOMAIN r /\ r[m] # SampleValue(m, ops)
               /\ Cardinality(RegularIn(table, u)) >= 2

\* the activities stored for u on date in a table, <<>> with no item
StoredActivities(tbl, u, date) ==
    IF get_activity_item(tbl, u, date) = {} THEN <<>>
    ELSE (CHOOSE i \in get_activity_item(tbl, u, date) : TRUE)["activities"]

Added(answer, by) ==
    /\ by = "AddActivities"
    /\ "success" \in DOMAIN answer
    /\ answer["success"]

\* C21: a successful AddActivities leaves, on its date, the activities stored
\* before followed by the added ones (exactly the added ones when no item was
\* there, which it then creates), so that the count grows by the number
\* added; the items of the other dates stay as they were.
ActivityAppend ==
    [][Added(response', tool') =>
         \A u \in Users :
             LET date == response'["date"]
                 old == StoredActivities(activities_table, u, date)
                 new == StoredActivities(activities_table', u, date)
             IN  /\ Cardinality(get_activity_item(activities_table', u, date)) = 1
                 /\ new = old \o response'["addedActivities"]
                 /\ Len(new) = Len(old) + response'["addedCount"]
                 /\ activities_table' \ get_activity_item(activities_table', u, date)
                        = activities_table \ get_activity_item(activities_table, u, date)]_vars

\* two activities were added to a date that held two before, while another
\* date holds activities of its own
ActivityAppendWitness ==
    /\ Added(response, tool)
    /\ response["addedCount"] = 2
    /\ \E u \in Users :
           /\ Len(StoredActivities(activities_table, u, response["date"])) = 4
           /\ \E date \in ActivityDates \ {response["date"]} :
                  StoredActivities(activities_table, u, date) # <<>>

\* the step is a successful add after which u has two or more regular records
AddToOthers(u) ==
    /\ tool' = "AddBodyMeasurement"
    /\ Succeeded'
    /\ Cardinality(Regular(u)') >= 2

\* C22: after an add that leaves the user with two or more regular records,
\* Latest holds, for every metric the added record carries, the value and the
\* measurement time of that record, whatever the times of the other records.
AddLastWriteWins ==
    [][\A u \in Users :
          AddToOthers(u) =>
              \A r \in Named(u)' : \A m \in DOMAIN MetricsOf(r) :
                  LatestEntry(u, m)' =
                      (m :> r[m]) @@ (LastUpdateKey(m) :> r["measurement_time"])]_vars

\* a backfilled add: the added record is older than another record carrying
\* the same metric, and Latest holds the added record's value and time
AddLastWriteWinsWitness ==
    /\ tool = "AddBodyMeasurement"
    /\ Succeeded
    /\ \E u \in Users : \E r \in Named(u) : \E m \in DOMAIN MetricsOf(r) :
           /\ \E q \in Carrying(u, m) : q["measurement_time"] > r["measurement_time"]
           /\ LatestEntry(u, m) = (m :> r[m]) @@ (LastUpdateKey(m) :> r["measurement_time"])

\* C23: after an add that leaves the user with two or more regular records,
\* for every metric the added record carries, Oldest keeps the value and the
\* time it had for the metric, and when it had none (or was not there) holds
\* the value and the measurement time of the added record.
AddFirstWriterWins ==
    [][\A u \in Users :
          AddToOthers(u) =>
              \A r \in Named(u)' : \A m \in DOMAIN MetricsOf(r) :
                  IF m \in DOMAIN OldestEntry(u, m)
                  THEN OldestEntry(u, m)' = OldestEntry(u, m)
                  ELSE OldestEntry(u, m)' =
                           (m :> r[m]) @@ (FirstRecordKey(m) :> r["measurement_time"])]_vars

\* a weight and then a height were added in separate records: an add of a
\* height that came with a weight older than the one of Oldest succeeded, and
\* Oldest holds the other record's weight and the added record's height,
\* while Latest holds both metrics too
AddFirstWriterWinsWitness ==
    /\ tool = "AddBodyMeasurement"
    /\ Succeeded
    /\ \E u \in Users : \E r \in Named(u) :
           /\ Cardinality(Regular(u)) >= 2
           /\ {"weight", "height"} \subseteq DOMAIN r
           /\ {"weight", "height"} \subseteq DOMAIN Oldest(u)
           /\ {"weight", "height"} \subseteq DOMAIN Latest(u)
           /\ Oldest(u)["weight"] # r["weight"]
           /\ Oldest(u)["first_weight_record"] > r["measurement_time"]
           /\ Oldest(u)["height"] = r["height"]
           /\ Oldest(u)["first_height_record"] = r["measurement_time"]

ErrorTypes == {"ValidationError", "DatabaseError", "InternalError"}

\* C24: every invocation made so far was answered, with success or with a
\* failure of one of the three error types; and a request without userId or
\* of an unknown operation name, made now, is answered with ValidationError
\* and no change of the table even when every storage call fails, that is
\* without a storage call.
ErrorClassification ==
    /\ ops > 0 => (Succeeded \/ \E e \in ErrorTypes : response = Failure(e))
    /\ \A event \in AnyEvents(ops + 1) :
           ("userId" \notin DOMAIN event \/ event["tool_name"] = UnknownTool) =>
               /\ lambda_handler(table, event, StorageCalls) = Rejected(table)
               /\ lambda_handler(table, event, NoFaults) = Rejected(table)

\* an unknown operation was refused for a user who has records
ErrorClassificationWitness ==
    /\ tool = UnknownTool
    /\ response = Failure("ValidationError")
    /\ \E u \in Users : Regular(u) # {}

\* C25: in every state, an update or a delete whose measurement_id is
\* 'latest' or 'oldest' is refused as not found, with ValidationError and no
\* change of the table.
SummariesOnlyMaintained ==
    \A u \in Users, id \in SentinelIds :
        /\ lambda_handler(table, Event("DeleteBodyMeasurement", u) @@ ("measurement_id" :> id),
                          NoFaults) = Rejected(table)
        /\ \A data \in MeasurementData(ops + 1) \ {EmptyDict} :
               lambda_handler(table,
                              Event("UpdateBodyMeasurement", u) @@ data
                                  @@ ("measurement_id" :> id),
                              NoFaults) = Rejected(table)

\* the step is an invocation of the tool for u whose primary write went
\* through, in which the call failed that lists the records for the
\* maintenance of a summary, and after which u has n regular records or more
ListingFailed(by, call, u, n) ==
    /\ tool' = by
    /\ Succeeded'
    /\ call \in failed'
    /\ Cardinality(Regular(u)') >= n

\* C26: when the query that lists the user's records for the maintenance of
\* a summary fails, the invocation leaves that summary as it was: an add to
\* other records leaves both summaries, an update leaves Latest, and a delete
\* that leaves a record behind leaves the summary whose listing failed.
FailedReadIsNotEmptyUser ==
    [][\A u \in Users :
          /\ ListingFailed("AddBodyMeasurement", "list_records", u, 2) =>
                 /\ Summary(u, LATEST_ID)' = Summary(u, LATEST_ID)
                 /\ Summary(u, OLDEST_ID)' = Summary(u, OLDEST_ID)
          /\ ListingFailed("UpdateBodyMeasurement", "read_latest", u, 1) =>
                 Summary(u, LATEST_ID)' = Summary(u, LATEST_ID)
          /\ ListingFailed("DeleteBodyMeasurement", "read_latest", u, 1) =>
                 Summary(u, LATEST_ID)' = Summary(u, LATEST_ID)
          /\ ListingFailed("DeleteBodyMeasurement", "read_oldest", u, 1) =>
                 Summary(u, OLDEST_ID)' = Summary(u, OLDEST_ID)]_vars

\* C27: whatever the interleaving of the storage calls of a concurrent add
\* and delete of a user, once both have returned a user without regular
\* record has neither summary.
EmptyInvariantOfRaces ==
    BothDone =>
        \A u \in Users : Regular(u) = {} => ~HasLatest(u) /\ ~HasOldest(u)

\* C28: after every completed operation of a sequential, failure-free
\* sequence of adds, updates and deletes, a user with a regular record has
\* both a Latest and an Oldest summary record.
SummariesExistWithData ==
    \A u \in Users : Regular(u) # {} => HasLatest(u) /\ HasOldest(u)

\* a delete left a record behind, and both summaries are there
SummariesExistWithDataWitness ==
    /\ tool = "DeleteBodyMeasurement"
    /\ Succeeded
    /\ \E u \in Users : Regular(u) # {} /\ HasLatest(u) /\ HasOldest(u)

\* C29: after every add, update and delete of a sequential, failure-free
\* sequence, Latest holds a metric exactly when it holds its
\* last_<metric>_update and Oldest exactly when it holds its
\* first_<metric>_record, and a value and a time that the operation has put
\* into a summary are those of one regular record.
CompanionTimestamps ==
    [][\A u \in Users, m \in Metrics :
          /\ DOMAIN LatestEntry(u, m)' \in {{}, {m, LastUpdateKey(m)}}
          /\ DOMAIN OldestEntry(u, m)' \in {{}, {m, FirstRecordKey(m)}}
          /\ (LatestEntry(u, m)' # LatestEntry(u, m) /\ LatestEntry(u, m)' # EmptyDict) =>
                 \E r \in Carrying(u, m)' :
                     LatestEntry(u, m)' =
                         (m :> r[m]) @@ (LastUpdateKey(m) :> r["measurement_time"])
          /\ (OldestEntry(u, m)' # OldestEntry(u, m) /\ OldestEntry(u, m)' # EmptyDict) =>
                 \E r \in Carrying(u, m)' :
                     OldestEntry(u, m)' =
                         (m :> r[m]) @@ (FirstRecordKey(m) :> r["measurement_time"])]_vars

\* the items of the partition of u
PartitionOf(tbl, u) == {i \in tbl : i["userId"] = u}

\* the requests u can make as the k-th invocation: an add, an update, a
\* delete and the three queries
RequestsOf(u, k) ==
    {Event("AddBodyMeasurement", u) @@ data @@ ("measurement_time" :> t) :
        data \in MeasurementData(k), t \in Times}
    \cup {Event("UpdateBodyMeasurement", u) @@ data @@ ("measurement_id" :> t) :
        data \in MeasurementData(k), t \in Times}
    \cup {Event("DeleteBodyMeasurement", u) @@ ("measurement_id" :> t) : t \in Times}
    \cup {Event("GetLatestMeasurements", u), Event("GetOldestMeasurements", u)}
    \cup {HistoryEvent(u, 1, t, {}) : t \in Times}

\* C30: in every state, a request of a user leaves the items of every other
\* user as they are, and answers and leaves the user's own items as it would
\* if the table held the user's items alone.
PerUserIsolation ==
    \A u \in TwoUsers : \A event \in RequestsOf(u, ops + 1) :
        LET done == lambda_handler(table, event, NoFaults)
            alone == lambda_handler(PartitionOf(table, u), event, NoFaults)
        IN  /\ done.table \ PartitionOf(done.table, u) = table \ PartitionOf(table, u)
            /\ PartitionOf(done.table, u) = alone.table
            /\ done.response = alone.response

\* both users have a regular record and both summaries, of different metrics
PerUserIsolationWitness ==
    /\ \A u \in TwoUsers :
           \E r \in PartitionOf(table, u) : IsRegularItem(r)
    /\ \E l1 \in PartitionOf(table, "u1"), l2 \in PartitionOf(table, "u2") :
           /\ l1["measurementId"] = LATEST_ID
           /\ l2["measurementId"] = LATEST_ID
           /\ DOMAIN MetricsOf(l1) # DOMAIN MetricsOf(l2)
    /\ \E o1 \in PartitionOf(table, "u1"), o2 \in PartitionOf(table, "u2") :
           o1["measurementId"] = OLDEST_ID /\ o2["measurementId"] = OLDEST_ID

====
